---- MODULE Spec2Model ----
(***************************************************************************)
(* Durable import/export pipeline of the blog: the import and export       *)
(* workflows, the service entry points that start them, and the helpers    *)
(* that import one post (slug check, tag resolution, image upload).        *)
(*                                                                         *)
(* Strings are sequences of character tokens, so that slugify and the      *)
(* frontmatter normalisation are computed, not assumed.                    *)
(***************************************************************************)
EXTENDS Integers, Sequences, FiniteSets, TLC

\* the absent string (strings are tuples of tokens)
Null == <<"<null>">>

\* ------------------------------------------------------------------------
\* Bounds of the model
\* ------------------------------------------------------------------------
MaxUnits == 2
MaxAttempts == 2
MaxFaults == 2
MaxRestarts == 1
MaxBaseLen == 3
MaxRefLen == 4
MaxItems == 2

\* ------------------------------------------------------------------------
\* Strings as sequences of character tokens
\* ------------------------------------------------------------------------
Digits == <<"0", "1", "2", "3", "4", "5", "6", "7", "8", "9">>

DigitSet == {Digits[k] : k \in 1..10}

RECURSIVE SeqToSet(_)
SeqToSet(s) == IF s = <<>> THEN {} ELSE {Head(s)} \cup SeqToSet(Tail(s))

RECURSIVE Dedup(_)
\* [...new Set(xs)]: first occurrences, in order
Dedup(s) ==
  IF s = <<>> THEN <<>>
  ELSE LET d == Dedup(SubSeq(s, 1, Len(s) - 1))
           x == s[Len(s)]
       IN IF x \in SeqToSet(d) THEN d ELSE Append(d, x)

NoDedup(tagList) == tagList

uniqueTagsOf(tagList) == Dedup(tagList)

\* String.prototype.toLowerCase on the alphabet of the model
LowerChar(c) ==
  CASE c = "A" -> "a"
    [] c = "B" -> "b"
    [] c = "C" -> "c"
    [] OTHER -> c

toLowerCase(s) == [k \in 1..Len(s) |-> LowerChar(s[k])]

WhiteSpace == {" ", "\t", "\n"}

RECURSIVE TrimStart(_)
TrimStart(s) ==
  IF s # <<>> /\ Head(s) \in WhiteSpace THEN TrimStart(Tail(s)) ELSE s

RECURSIVE TrimEnd(_)
TrimEnd(s) ==
  IF s # <<>> /\ s[Len(s)] \in WhiteSpace
  THEN TrimEnd(SubSeq(s, 1, Len(s) - 1))
  ELSE s

trim(s) == TrimEnd(TrimStart(s))

RECURSIVE ReplaceRuns(_, _, _)
\* s.replace(/[cs]+/g, r): every maximal run of characters of cs becomes r
ReplaceRuns(s, cs, r) ==
  IF s = <<>> THEN <<>>
  ELSE IF Head(s) \in cs
       THEN IF Len(s) > 1 /\ s[2] \in cs
            THEN ReplaceRuns(Tail(s), cs, r)
            ELSE r \o ReplaceRuns(Tail(s), cs, r)
       ELSE <<Head(s)>> \o ReplaceRuns(Tail(s), cs, r)

\* a-z, 0-9, the hyphen, and "zh" standing for a character of U+4E00..U+9FA5
SlugChars == {"a", "b", "c", "-", "zh"} \cup DigitSet

RECURSIVE StripLeading(_, _)
StripLeading(s, c) ==
  IF s # <<>> /\ Head(s) = c THEN StripLeading(Tail(s), c) ELSE s

RECURSIVE StripTrailing(_, _)
StripTrailing(s, c) ==
  IF s # <<>> /\ s[Len(s)] = c
  THEN StripTrailing(SubSeq(s, 1, Len(s) - 1), c)
  ELSE s

UntitledLog == <<"u", "n", "t", "i", "t", "l", "e", "d", "-", "l", "o", "g">>

slugify(text) ==
  IF text = Null \/ text = <<>> THEN UntitledLog
  ELSE LET s1 == trim(toLowerCase(text))
           s2 == ReplaceRuns(s1, WhiteSpace \cup {"_"}, <<"-">>)
           s3 == SelectSeq(s2, LAMBDA c : c \in SlugChars)
           s4 == ReplaceRuns(s3, {"-"}, <<"-">>)
           s5 == StripTrailing(StripLeading(s4, "-"), "-")
       IN IF s5 = <<>> THEN UntitledLog ELSE s5

IsPrefix(p, s) == Len(p) <= Len(s) /\ SubSeq(s, 1, Len(p)) = p

RECURSIVE ParseInt(_)
\* parseInt(digits, 10) of a non-empty digit string
ParseInt(ds) ==
  IF ds = <<>> THEN 0
  ELSE LET d == CHOOSE k \in 0..9 : Digits[k + 1] = ds[Len(ds)]
       IN 10 * ParseInt(SubSeq(ds, 1, Len(ds) - 1)) + d

RECURSIVE ToDigits(_)
ToDigits(n) ==
  IF n < 10 THEN <<Digits[n + 1]>>
  ELSE ToDigits(n \div 10) \o <<Digits[(n % 10) + 1]>>

RECURSIVE SplitOn(_, _)
\* s.split(c)
SplitOn(s, c) ==
  IF \A k \in 1..Len(s) : s[k] # c THEN <<s>>
  ELSE LET k == CHOOSE j \in 1..Len(s) :
                  s[j] = c /\ \A h \in 1..(j - 1) : s[h] # c
       IN <<SubSeq(s, 1, k - 1)>> \o SplitOn(SubSeq(s, k + 1, Len(s)), c)

\* ------------------------------------------------------------------------
\* Frontmatter values and normalizeFrontmatter
\* ------------------------------------------------------------------------
\* A raw frontmatter value is a tagged value; Absent is undefined
Absent == [t |-> "undefined", v |-> <<>>]

Str(s) == [t |-> "str", v |-> s]

Num(n) == [t |-> "num", v |-> n]

Bool(b) == [t |-> "bool", v |-> b]

Arr(xs) == [t |-> "arr", v |-> xs]

DateObj(day) == [t |-> "date", v |-> <<day>>]

IsStr(x) == x.t = "str"

\* a coalescing that prefers its second operand
PreferSecond(a, b) == IF b.t # "undefined" THEN b ELSE a

\* a ?? b
Coalesce(a, b) == IF a.t # "undefined" THEN a ELSE b

\* JavaScript truthiness of a raw value
Truthy(x) ==
  /\ x.t # "undefined"
  /\ (x.t = "str" => x.v # <<>>)
  /\ (x.t = "num" => x.v # 0)
  /\ (x.t = "bool" => x.v)

NoFields ==
  [title |-> Absent, slug |-> Absent, url |-> Absent, permalink |-> Absent,
   summary |-> Absent, description |-> Absent, excerpt |-> Absent,
   draft |-> Absent, status |-> Absent,
   publishedAt |-> Absent, date |-> Absent, published_at |-> Absent,
   createdAt |-> Absent, created_at |-> Absent,
   updatedAt |-> Absent, updated_at |-> Absent, lastmod |-> Absent,
   modified |-> Absent,
   readTimeInMinutes |-> Absent, tags |-> Absent, categories |-> Absent]

DayTokens == {"2024-01-15", "2024-06-15"}

IsoSuffix == "T00:00:00.000Z"

\* a conversion that never yields a date string
noISOString(value) == Null

\* new Date(s) is valid for a day token, alone or followed by the ISO suffix
toISOString(value) ==
  IF value.t = "date" THEN <<value.v[1], IsoSuffix>>
  ELSE IF value.t = "str" /\ value.v # <<>> /\ value.v[1] \in DayTokens
          /\ (Len(value.v) = 1 \/ (Len(value.v) = 2 /\ value.v[2] = IsoSuffix))
       THEN <<value.v[1], IsoSuffix>>
       ELSE Null

POST_STATUSES == {<<"draft">>, <<"published">>}

\* the field mapping of normalizeFrontmatter, before schema validation;
\* string fields are Null when not set, the others stay tagged
mapFields(data) ==
  LET slugSource == Coalesce(Coalesce(data.slug, data.url), data.permalink)
      segments == IF IsStr(slugSource)
                  THEN SelectSeq(SplitOn(slugSource.v, "/"),
                                 LAMBDA g : g # <<>>)
                  ELSE <<>>
      summarySource ==
        Coalesce(Coalesce(data.summary, data.description), data.excerpt)
      dateSource ==
        Coalesce(Coalesce(data.publishedAt, data.date), data.published_at)
      createdSource ==
        Coalesce(Coalesce(data.createdAt, data.created_at), data.date)
      updatedSource ==
        Coalesce(Coalesce(Coalesce(data.updatedAt, data.updated_at),
                          data.lastmod), data.modified)
      tagsSource == Coalesce(data.tags, data.categories)
  IN [title |-> IF IsStr(data.title) THEN data.title.v ELSE Null,
      slug |-> IF IsStr(slugSource)
               THEN IF segments # <<>> THEN segments[Len(segments)]
                    ELSE slugSource.v
               ELSE Null,
      summary |-> IF IsStr(summarySource) THEN summarySource.v ELSE Null,
      status |-> IF data.draft.t = "bool" /\ data.draft.v THEN <<"draft">>
                 ELSE IF IsStr(data.status) THEN data.status.v
                 ELSE <<"published">>,
      publishedAt |-> IF Truthy(dateSource) THEN toISOString(dateSource)
                      ELSE Null,
      createdAt |-> IF Truthy(createdSource) THEN toISOString(createdSource)
                    ELSE Null,
      updatedAt |-> IF Truthy(updatedSource) THEN toISOString(updatedSource)
                    ELSE Null,
      readTimeInMinutes |->
        IF data.readTimeInMinutes.t = "num" THEN data.readTimeInMinutes
        ELSE Absent,
      tags |-> IF tagsSource.t = "arr"
               THEN Arr(SelectSeq(tagsSource.v, IsStr))
               ELSE Absent]

Rejected == [ok |-> FALSE]

\* PostFrontmatterSchema.safeParse: Rejected when validation fails,
\* otherwise the record with the schema defaults filled in
PostFrontmatterSchema(mapped) ==
  IF mapped.title = Null \/ mapped.status \notin POST_STATUSES THEN Rejected
  ELSE [ok |-> TRUE,
        title |-> mapped.title,
        slug |-> IF mapped.slug = Null THEN <<>> ELSE mapped.slug,
        summary |-> mapped.summary,
        status |-> mapped.status,
        publishedAt |-> mapped.publishedAt,
        createdAt |-> mapped.createdAt,
        updatedAt |-> mapped.updatedAt,
        readTimeInMinutes |->
          IF mapped.readTimeInMinutes.t = "num"
          THEN mapped.readTimeInMinutes.v ELSE 1,
        tags |-> IF mapped.tags.t = "arr"
                 THEN [k \in 1..Len(mapped.tags.v) |-> mapped.tags.v[k].v]
                 ELSE <<>>]

normalizeFrontmatter(data) == PostFrontmatterSchema(mapFields(data))

\* ------------------------------------------------------------------------
\* Archives, progress records and stores
\* ------------------------------------------------------------------------
TaskIds == {"t1", "t2"}

\* the task that runs alone in Spec
SoloTasks == {"t1"}

\* a progress key that does not depend on the task
importProgressShared(taskId) == <<"import:progress:", "t1">>

importProgress(taskId) == <<"import:progress:", taskId>>

exportProgress(taskId) == <<"export:progress:", taskId>>

importZip(taskId) == <<"imports/", taskId, ".zip">>

exportZip(taskId) == <<"exports/", taskId, ".zip">>

ProgressKeys ==
  {importProgress(t) : t \in TaskIds} \cup {exportProgress(t) : t \in TaskIds}

\* one candidate post of an archive: its directory or base name, the raw
\* frontmatter of its markdown file, whether content.json is present,
\* whether the markdown body is non-empty, and the number of non-empty image
\* files its references resolve to
Unit(dir, fm, json, body, imgs) ==
  [dir |-> dir, fm |-> fm, json |-> json, body |-> body, imgs |-> imgs]

UnitPool ==
  { Unit(<<"a">>,
         [NoFields EXCEPT !.title = Str(<<"A", " ", "b">>),
                          !.tags = Arr(<<Str(<<"x">>), Str(<<"y">>),
                                         Str(<<"x">>)>>)],
         TRUE, TRUE, 1),
    Unit(<<"b">>,
         [NoFields EXCEPT !.title = Str(<<"B">>),
                          !.url = Str(<<"/", "p", "/", "b", "_", "c", "/">>),
                          !.categories = Arr(<<Str(<<"x">>)>>)],
         TRUE, FALSE, 0),
    Unit(<<"c">>, [NoFields EXCEPT !.summary = Str(<<"c">>)],
         FALSE, TRUE, 0) }

\* normalizeFrontmatter(parsed.data) of each unit an archive can hold
normalizedOf == [u \in UnitPool |-> normalizeFrontmatter(u.fm)]

\* normalized.title || "Untitled"
titleOf(normalized) ==
  IF normalized.title # <<>> THEN normalized.title
  ELSE <<"U", "n", "t", "i", "t", "l", "e", "d">>

\* normalized.slug || title
candidateSlugOf(normalized) ==
  IF normalized.slug # <<>> THEN normalized.slug ELSE titleOf(normalized)

\* the candidate slugs of the units an archive can hold
candidateSlugs ==
  {candidateSlugOf(normalizedOf[u]) : u \in {v \in UnitPool : normalizedOf[v].ok}}

\* slugify of each candidate slug
slugified == [c \in candidateSlugs |-> slugify(c)]

\* a slug check that looks up the candidate as written
slugifyRaw(candidateSlug) == candidateSlug

\* slugify(candidateSlug) of the collision check
checkSlugOf(candidateSlug) == slugified[candidateSlug]

RECURSIVE SeqsUpTo(_, _)
\* the sequences of at most n distinct elements of S
SeqsUpTo(S, n) ==
  IF n = 0 THEN {<<>>}
  ELSE LET shorter == SeqsUpTo(S, n - 1)
       IN shorter \cup
          {Append(pr[1], pr[2]) :
             pr \in {qx \in shorter \X S : qx[2] \notin SeqToSet(qx[1])}}

\* what a caller uploads: the number of files, whether the archive can be
\* parsed, whether it holds a valid manifest.json, and its candidate posts
Upload(n, readable, manifest, units) ==
  [n |-> n, readable |-> readable, manifest |-> manifest, units |-> units]

Uploads ==
  {Upload(0, TRUE, FALSE, <<>>), Upload(1, FALSE, FALSE, <<>>)}
  \cup {Upload(1, TRUE, m, us) : m \in BOOLEAN, us \in SeqsUpTo(UnitPool, MaxUnits)}

NoReport == [has |-> FALSE, succeeded |-> <<>>, failed |-> <<>>, warnings |-> <<>>]

EmptyReport == [succeeded |-> <<>>, failed |-> <<>>, warnings |-> <<>>]

WithReport(r) ==
  [has |-> TRUE, succeeded |-> r.succeeded, failed |-> r.failed,
   warnings |-> r.warnings]

\* a TaskProgress value; NoProgress is the absent key
TaskProgress(status, total, completed, current, errors, warnings, dk, report) ==
  [status |-> status, total |-> total, completed |-> completed,
   current |-> current, errors |-> errors, warnings |-> warnings,
   downloadKey |-> dk, report |-> report]

NoProgress == TaskProgress("none", 0, 0, <<>>, <<>>, <<>>, Null, NoReport)

Terminal(p) == p.status \in {"completed", "failed"}

\* report.failed.map((f) => ({ post: f.title, reason: f.reason }))
errorsOf(failed) ==
  [k \in 1..Len(failed) |-> [post |-> failed[k].title, reason |-> failed[k].reason]]

WarnNoPosts == <<"no-importable-posts-in-zip">>

WarnNoExportPosts == <<"no-exportable-posts">>

WarnSkip(title) == <<"[">> \o title \o <<"]", "slug-exists-skipped">>

ErrZipNotFound == <<"zip-not-found">>

ErrMetadata == <<"metadata-invalid">>

ErrStore == <<"store-error">>

ErrPrimaryKey == <<"primary-key-violation">>

ErrUnknown == <<"unknown-error">>

SeedPost ==
  [title |-> <<"S">>, slug |-> <<"a", "-", "b">>, status |-> <<"published">>,
   summary |-> Null, readTime |-> 1, content |-> FALSE,
   publishedAt |-> DateObj("2024-01-15"),
   src |-> [task |-> "seed", unit |-> 0]]

SeedDraft ==
  [title |-> <<"D">>, slug |-> <<"zh">>, status |-> <<"draft">>,
   summary |-> Null, readTime |-> 1, content |-> FALSE,
   publishedAt |-> Absent,
   src |-> [task |-> "seed", unit |-> 0]]

VARIABLES
  kv,        \* progress store: key -> TaskProgress
  r2,        \* blob store: the set of keys that hold an object
  zips,      \* the archive stored for each import task
  posts,     \* PostsTable rows, in insertion order (id = index)
  tags,      \* TagsTable rows: tag names, in insertion order (id = index)
  postTags,  \* PostTagsTable rows
  media,     \* MediaTable rows: keys
  postMedia, \* PostMediaTable rows
  resp,      \* what startImport / startExport answered for each task
  wf,        \* the workflow instance of each task: position and locals
  cache,     \* the step results the engine has persisted for each task
  isp,       \* the locals of the running importSinglePost call of each task
  faults,    \* exceptions injected so far
  restarts,  \* engine restarts so far
  call       \* a call of a helper function: its arguments and its result

vars ==
  <<kv, r2, zips, posts, tags, postTags, media, postMedia, resp, wf, cache,
    isp, faults, restarts, call>>

\* no helper call is under way
NoCall == [fn |-> "none"]

stores == <<posts, tags, postTags, media, postMedia>>

NoWf ==
  [kind |-> "none", pc |-> "none", mode |-> "native", filter |-> Null,
   entries |-> <<>>,
   i |-> 1, j |-> 1, attempt |-> 0, delta |-> EmptyReport,
   report |-> EmptyReport, warnings |-> <<>>, error |-> Null,
   fatal |-> "none"]

NoCache ==
  [enum |-> FALSE, entries |-> <<>>, deltas |-> <<>>, fin |-> FALSE,
   fetch |-> FALSE, posts |-> <<>>, build |-> FALSE, slept |-> FALSE,
   clean |-> FALSE]

IspIdle ==
  [title |-> Null, cand |-> Null, slug |-> Null, uniqueTags |-> <<>>,
   k |-> 1, tagIds |-> <<>>, postId |-> 0, warnings |-> <<>>,
   keys |-> <<>>, content |-> FALSE,
   snap |-> [posts |-> <<>>, tags |-> <<>>, postTags |-> {}, media |-> {},
             postMedia |-> {}, blobs |-> {}]]

\* the relational stores and the blob store, as importSinglePost finds them
StoreSnap ==
  [posts |-> posts, tags |-> tags, postTags |-> postTags, media |-> media,
   postMedia |-> postMedia, blobs |-> r2]

Init ==
  /\ kv = [k \in ProgressKeys |-> NoProgress]
  /\ r2 = {}
  /\ zips = [t \in TaskIds |-> <<>>]
  /\ posts \in {<<>>, <<SeedPost, SeedDraft>>}
  /\ tags \in {<<>>, <<<<"x">>>>}
  /\ postTags = {}
  /\ media = {}
  /\ postMedia = {}
  /\ resp = [t \in TaskIds |-> "none"]
  /\ wf = [t \in TaskIds |-> NoWf]
  /\ cache = [t \in TaskIds |-> NoCache]
  /\ isp = [t \in TaskIds |-> IspIdle]
  /\ faults = 0
  /\ restarts = 0
  /\ call = NoCall

\* CacheService.set(context, key, JSON.stringify(progress), { ttl: "24h" })
updateProgress(key, progress) == kv' = [kv EXCEPT ![key] = progress]

\* ------------------------------------------------------------------------
\* startImport
\* ------------------------------------------------------------------------
\* files.length === 0
StartImportNoFiles(t) ==
  /\ resp[t] = "none"
  /\ \E up \in Uploads : up.n = 0
  /\ resp' = [resp EXCEPT ![t] = "NO_FILES"]
  /\ UNCHANGED <<kv, r2, zips, stores, wf, cache, isp, faults, restarts>>

\* parseZip throws on the uploaded bytes, or R2.put throws
StartImportUploadFailed(t) ==
  /\ resp[t] = "none"
  /\ \E up \in Uploads : up.n > 0
  /\ resp' = [resp EXCEPT ![t] = "UPLOAD_FAILED"]
  /\ UNCHANGED <<kv, r2, zips, stores, wf, cache, isp, faults, restarts>>

modeOf(up) == IF up.manifest THEN "native" ELSE "markdown"

\* the archive is stored and the pending record written, then
\* IMPORT_WORKFLOW.create throws: the record is deleted again
StartImportCreateFailed(t) ==
  /\ resp[t] = "none"
  /\ \E up \in Uploads :
       /\ up.n > 0 /\ up.readable
       /\ r2' = r2 \cup {importZip(t)}
       /\ zips' = [zips EXCEPT ![t] = up.units]
  /\ kv' = [kv EXCEPT ![importProgress(t)] = NoProgress]
  /\ resp' = [resp EXCEPT ![t] = "WORKFLOW_CREATE_FAILED"]
  /\ UNCHANGED <<stores, wf, cache, isp, faults, restarts>>

PendingProgress(current) ==
  TaskProgress("pending", 0, 0, current, <<>>, <<>>, Null, NoReport)

StartImportOk(t) ==
  /\ resp[t] = "none"
  /\ \E up \in Uploads :
       /\ up.n > 0 /\ up.readable
       /\ r2' = r2 \cup {importZip(t)}
       /\ zips' = [zips EXCEPT ![t] = up.units]
       /\ wf' = [wf EXCEPT ![t] =
                   [NoWf EXCEPT !.kind = "import", !.pc = "enum",
                                !.mode = modeOf(up)]]
  /\ updateProgress(importProgress(t), PendingProgress(<<"preparing-import">>))
  /\ resp' = [resp EXCEPT ![t] = "ok"]
  /\ UNCHANGED <<stores, cache, isp, faults, restarts>>

startImport(t) ==
  \/ StartImportNoFiles(t)
  \/ StartImportUploadFailed(t)
  \/ StartImportCreateFailed(t)
  \/ StartImportOk(t)

\* ------------------------------------------------------------------------
\* ImportWorkflow.run
\* ------------------------------------------------------------------------
\* the entries of the units whose frontmatter normalizes; idx stands for the
\* prefix / mdPath that locates the unit in the archive
RECURSIVE enumeratePosts(_, _)
enumeratePosts(zipFiles, n) ==
  IF n = 0 THEN <<>>
  ELSE LET u == zipFiles[n]
           normalized == normalizedOf[u]
           rest == enumeratePosts(zipFiles, n - 1)
       IN IF ~normalized.ok THEN rest
          ELSE Append(rest, [dir |-> u.dir, title |-> normalized.title,
                             idx |-> n])

enumerateNativePosts(zipFiles) == enumeratePosts(zipFiles, Len(zipFiles))

enumerateMarkdownPosts(zipFiles) == enumeratePosts(zipFiles, Len(zipFiles))

\* entry.title || entry.dir
titleOrDir(entry) == IF entry.title # <<>> THEN entry.title ELSE entry.dir

Running(t) == wf[t].pc \notin {"none", "done", "errored"}

\* a step body threw: the engine retries the step until its attempts are
\* used up, then the exception leaves step.do and reaches the catch of run
StepFailed(t, message) ==
  IF wf[t].attempt + 1 < MaxAttempts
  THEN wf' = [wf EXCEPT ![t].attempt = @ + 1]
  ELSE wf' = [wf EXCEPT ![t].pc = "catch", ![t].attempt = 0,
                        ![t].error = message, ![t].fatal = wf[t].pc]

\* step.do("enumerate posts"): the cached result, or the body
EnumerateStep(t) ==
  /\ wf[t].kind = "import" /\ wf[t].pc = "enum"
  /\ IF cache[t].enum
     THEN /\ wf' = [wf EXCEPT ![t].entries = cache[t].entries,
                              ![t].pc = IF cache[t].entries = <<>>
                                        THEN "empty" ELSE "unit"]
          /\ UNCHANGED cache
     ELSE IF importZip(t) \notin r2
          THEN StepFailed(t, ErrZipNotFound) /\ UNCHANGED cache
          ELSE LET es == IF wf[t].mode = "native"
                         THEN enumerateNativePosts(zips[t])
                         ELSE enumerateMarkdownPosts(zips[t])
               IN /\ cache' = [cache EXCEPT ![t].enum = TRUE, ![t].entries = es]
                  /\ wf' = [wf EXCEPT ![t].entries = es, ![t].attempt = 0,
                                      ![t].pc = IF es = <<>> THEN "empty"
                                                ELSE "unit"]
  /\ UNCHANGED <<kv, r2, zips, stores, resp, isp, faults, restarts>>

\* the record of an empty import without its warning
EmptyImportSilent ==
  TaskProgress("completed", 0, 0, <<>>, <<>>, <<>>, Null,
               WithReport(EmptyReport))

EmptyImportProgress ==
  TaskProgress("completed", 0, 0, <<>>, <<>>, <<WarnNoPosts>>, Null,
               WithReport(EmptyReport))

\* postEntries.length === 0: the completed record, and run returns
EmptyImport(t) ==
  /\ wf[t].kind = "import" /\ wf[t].pc = "empty"
  /\ updateProgress(importProgress(t), EmptyImportProgress)
  /\ wf' = [wf EXCEPT ![t].pc = "done"]
  /\ UNCHANGED <<r2, zips, stores, resp, cache, isp, faults, restarts>>

\* ------------------------------------------------------------------------
\* The per-unit step and importSinglePost
\* ------------------------------------------------------------------------
curEntry(t) == wf[t].entries[wf[t].i]

curUnit(t) == zips[t][curEntry(t).idx]

\* the step body returns its report: stepReport
UnitReturns(t, delta) ==
  /\ wf' = [wf EXCEPT ![t].pc = "unitRet", ![t].delta = delta]
  /\ isp' = [isp EXCEPT ![t] = IspIdle]

\* the catch inside the step body: one failed entry
UnitCaught(t, reason) ==
  UnitReturns(t, [succeeded |-> <<>>,
                  failed |-> <<[title |-> titleOrDir(curEntry(t)),
                                reason |-> reason]>>,
                  warnings |-> <<>>])

\* a step body without the try/catch: the exception makes the step fail
UnitNotCaught(t, reason) ==
  /\ isp' = [isp EXCEPT ![t] = IspIdle]
  /\ IF wf[t].attempt + 1 < MaxAttempts
     THEN wf' = [wf EXCEPT ![t].attempt = @ + 1, ![t].pc = "unit"]
     ELSE wf' = [wf EXCEPT ![t].pc = "catch", ![t].attempt = 0,
                           ![t].error = reason, ![t].fatal = wf[t].pc]

\* what the step body does with an exception of importSinglePost
UnitThrew(t, reason) == UnitCaught(t, reason)

prefixed(title, ws) == [k \in 1..Len(ws) |-> <<"[">> \o title \o <<"]">> \o ws[k]]

\* the report of a call that returned { title, slug, skipped, warnings }
resultReport(title, slug, skipped, warnings) ==
  [succeeded |-> IF skipped THEN <<>>
                 ELSE <<[title |-> title, slug |-> slug]>>,
   failed |-> <<>>,
   warnings |-> (IF skipped THEN <<WarnSkip(title)>> ELSE <<>>)
                \o prefixed(title, warnings)]

\* a unit step that runs its body whether or not a result is persisted
UnitStepUncached(t) ==
  /\ wf[t].kind = "import" /\ wf[t].pc = "unit"
  /\ wf' = [wf EXCEPT ![t].pc = "isp_fetch"]
  /\ isp' = [isp EXCEPT ![t] = [IspIdle EXCEPT !.snap = StoreSnap]]
  /\ UNCHANGED <<kv, r2, zips, stores, resp, cache, faults, restarts>>

\* step.do(`import post i/N`): the cached delta, or the body is entered
UnitStep(t) ==
  /\ wf[t].kind = "import" /\ wf[t].pc = "unit"
  /\ IF wf[t].i <= Len(cache[t].deltas)
     THEN /\ wf' = [wf EXCEPT ![t].pc = "acc",
                              ![t].delta = cache[t].deltas[wf[t].i]]
          /\ UNCHANGED isp
     ELSE /\ wf' = [wf EXCEPT ![t].pc = "isp_fetch"]
          /\ isp' = [isp EXCEPT ![t] = [IspIdle EXCEPT !.snap = StoreSnap]]
  /\ UNCHANGED <<kv, r2, zips, stores, resp, cache, faults, restarts>>

\* this.fetchZipFiles(r2Key) inside the try of the step body
FetchZip(t) ==
  /\ wf[t].pc = "isp_fetch"
  /\ IF importZip(t) \in r2
     THEN /\ wf' = [wf EXCEPT ![t].pc = "isp_parse"]
          /\ UNCHANGED isp
     ELSE UnitThrew(t, ErrZipNotFound)
  /\ UNCHANGED <<kv, r2, zips, stores, resp, cache, faults, restarts>>

\* generateKey: a key not yet used
RECURSIVE freshKeys(_, _)
freshKeys(used, n) ==
  IF n = 0 THEN <<>>
  ELSE LET k == CHOOSE c \in 1..(Cardinality(used) + 1) :
                  (<<"img">> \o ToDigits(c)) \notin used
           key == <<"img">> \o ToDigits(k)
       IN <<key>> \o freshKeys(used \cup {key}, n - 1)

\* uploadImages / uploadMarkdownImages: each image is put in the blob store
\* and gets a media row
UploadAll(t, n, content) ==
  LET keys == freshKeys(r2 \cup media, n)
  IN /\ r2' = r2 \cup SeqToSet(keys)
     /\ media' = media \cup SeqToSet(keys)
     /\ isp' = [isp EXCEPT ![t].keys = @ \o keys, ![t].content = content]

\* 1. Parse content; in markdown mode the relative images of a non-empty
\* body are uploaded here, before the slug check
ParseContent(t) ==
  /\ wf[t].pc = "isp_parse"
  /\ LET u == curUnit(t)
         native == wf[t].mode = "native"
         content == IF native THEN u.json \/ u.body ELSE u.body
     IN IF ~native /\ u.body /\ u.imgs > 0
        THEN /\ UploadAll(t, u.imgs, content)
             /\ wf' = [wf EXCEPT ![t].pc = "isp_check"]
        ELSE /\ isp' = [isp EXCEPT ![t].content = content]
             /\ wf' = [wf EXCEPT ![t].pc = "isp_check"]
             /\ UNCHANGED <<r2, media>>
  /\ UNCHANGED <<kv, zips, posts, tags, postTags, postMedia, resp, cache,
                 faults, restarts>>

\* a lookup that never finds a slug
slugNeverExists(slug) == FALSE

\* PostRepo.slugExists(db, slug)
slugExists(slug) == \E k \in 1..Len(posts) : posts[k].slug = slug

\* normalizeFrontmatter, then the slug collision check
SlugCheck(t) ==
  /\ wf[t].pc = "isp_check"
  /\ LET normalized == normalizedOf[curUnit(t)]
     IN IF ~normalized.ok
        THEN UnitThrew(t, ErrMetadata)
        ELSE LET title == titleOf(normalized)
                 candidateSlug == candidateSlugOf(normalized)
             IN IF slugExists(checkSlugOf(candidateSlug))
                THEN /\ UnitReturns(t, resultReport(title, candidateSlug, TRUE,
                                                    isp[t].warnings))
                ELSE /\ isp' = [isp EXCEPT ![t].title = title,
                                           ![t].cand = candidateSlug,
                                           ![t].uniqueTags =
                                             uniqueTagsOf(normalized.tags)]
                     /\ wf' = [wf EXCEPT ![t].pc = "isp_upimg"]
  /\ UNCHANGED <<kv, r2, zips, stores, resp, cache, faults, restarts>>

\* 3. uploadImages (native mode with content only)
UploadImages(t) ==
  /\ wf[t].pc = "isp_upimg"
  /\ IF isp[t].content /\ wf[t].mode = "native" /\ curUnit(t).imgs > 0
     THEN UploadAll(t, curUnit(t).imgs, TRUE)
     ELSE UNCHANGED <<r2, media, isp>>
  /\ wf' = [wf EXCEPT ![t].pc = "isp_genslug"]
  /\ UNCHANGED <<kv, zips, posts, tags, postTags, postMedia, resp, cache,
                 faults, restarts>>

\* the numeric suffixes n of the stored slugs of the form baseSlug-n
suffixesOf(baseSlug) ==
  {ParseInt(SubSeq(posts[k].slug, Len(baseSlug) + 2, Len(posts[k].slug))) :
     k \in {h \in 1..Len(posts) :
              /\ IsPrefix(baseSlug \o <<"-">>, posts[h].slug)
              /\ Len(posts[h].slug) > Len(baseSlug) + 1
              /\ \A c \in Len(baseSlug) + 2..Len(posts[h].slug) :
                   posts[h].slug[c] \in DigitSet}}

Max(S) == IF S = {} THEN 0 ELSE CHOOSE x \in S : \A y \in S : y <= x

\* PostService.generateSlug(context, { title })
generateSlug(title) ==
  LET baseSlug == slugified[title]
  IN IF ~slugExists(baseSlug) THEN baseSlug
     ELSE baseSlug \o <<"-">> \o ToDigits(Max(suffixesOf(baseSlug)) + 1)

\* 5. Generate unique slug
GenerateSlug(t) ==
  /\ wf[t].pc = "isp_genslug"
  /\ isp' = [isp EXCEPT ![t].slug = generateSlug(isp[t].cand), ![t].k = 1]
  /\ wf' = [wf EXCEPT ![t].pc = IF isp[t].uniqueTags = <<>> THEN "isp_insert"
                                ELSE "isp_tagfind"]
  /\ UNCHANGED <<kv, r2, zips, stores, resp, cache, faults, restarts>>

\* 6. Resolve tags: TagRepo.findTagByName(db, tagName)
findTagByName(name) ==
  IF \E id \in 1..Len(tags) : tags[id] = name
  THEN CHOOSE id \in 1..Len(tags) :
         tags[id] = name /\ \A h \in 1..(id - 1) : tags[h] # name
  ELSE 0

afterTag(t) ==
  IF isp[t].k >= Len(isp[t].uniqueTags) THEN "isp_insert" ELSE "isp_tagfind"

TagFind(t) ==
  /\ wf[t].pc = "isp_tagfind"
  /\ LET id == findTagByName(isp[t].uniqueTags[isp[t].k])
     IN IF id = 0
        THEN /\ wf' = [wf EXCEPT ![t].pc = "isp_tagins"]
             /\ UNCHANGED isp
        ELSE /\ isp' = [isp EXCEPT ![t].tagIds = Append(@, id),
                                   ![t].k = @ + 1]
             /\ wf' = [wf EXCEPT ![t].pc = afterTag(t)]
  /\ UNCHANGED <<kv, r2, zips, stores, resp, cache, faults, restarts>>

\* an insert that stores the name only when no tag has it
TagInsertIfAbsent(t) ==
  /\ wf[t].pc = "isp_tagins"
  /\ LET name == isp[t].uniqueTags[isp[t].k]
         id == findTagByName(name)
     IN /\ tags' = IF id = 0 THEN Append(tags, name) ELSE tags
        /\ isp' = [isp EXCEPT ![t].tagIds =
                                Append(@, IF id = 0 THEN Len(tags) + 1 ELSE id),
                              ![t].k = @ + 1]
  /\ wf' = [wf EXCEPT ![t].pc = afterTag(t)]
  /\ UNCHANGED <<kv, r2, zips, posts, postTags, media, postMedia, resp, cache,
                 faults, restarts>>

\* TagRepo.insertTag(db, { name: tagName })
TagInsert(t) ==
  /\ wf[t].pc = "isp_tagins"
  /\ tags' = Append(tags, isp[t].uniqueTags[isp[t].k])
  /\ isp' = [isp EXCEPT ![t].tagIds = Append(@, Len(tags) + 1), ![t].k = @ + 1]
  /\ wf' = [wf EXCEPT ![t].pc = afterTag(t)]
  /\ UNCHANGED <<kv, r2, zips, posts, postTags, media, postMedia, resp, cache,
                 faults, restarts>>

\* publishedAt of the inserted row: new Date(normalized.publishedAt), else
\* new Date() for a post that is not a draft, else null
publishedAtOf(normalized) ==
  IF normalized.publishedAt # Null /\ normalized.publishedAt # <<>>
  THEN DateObj(normalized.publishedAt[1])
  ELSE IF normalized.status # <<"draft">> THEN DateObj("now")
  ELSE Absent

\* 7. PostRepo.insertPost
InsertPost(t) ==
  /\ wf[t].pc = "isp_insert"
  /\ LET normalized == normalizedOf[curUnit(t)]
     IN posts' = Append(posts,
                        [title |-> isp[t].title, slug |-> isp[t].slug,
                         status |-> IF normalized.status = <<"draft">>
                                    THEN <<"draft">> ELSE <<"published">>,
                         summary |-> normalized.summary,
                         readTime |-> normalized.readTimeInMinutes,
                         content |-> isp[t].content,
                         publishedAt |-> publishedAtOf(normalized),
                         src |-> [task |-> t, unit |-> curEntry(t).idx]])
  /\ isp' = [isp EXCEPT ![t].postId = Len(posts) + 1]
  /\ wf' = [wf EXCEPT ![t].pc = "isp_link"]
  /\ UNCHANGED <<kv, r2, zips, tags, postTags, media, postMedia, resp, cache,
                 faults, restarts>>

\* 8. Link tags: one insert of all rows; a repeated (postId, tagId) violates
\* the primary key and the insert throws
LinkTags(t) ==
  /\ wf[t].pc = "isp_link"
  /\ LET ids == isp[t].tagIds
         rows == {[post |-> isp[t].postId, tag |-> ids[k]] : k \in 1..Len(ids)}
     IN IF Cardinality(rows) < Len(ids) \/ rows \cap postTags # {}
        THEN UnitThrew(t, ErrPrimaryKey) /\ UNCHANGED postTags
        ELSE /\ postTags' = postTags \cup rows
             /\ wf' = [wf EXCEPT ![t].pc = "isp_sync"]
             /\ UNCHANGED isp
  /\ UNCHANGED <<kv, r2, zips, posts, tags, media, postMedia, resp, cache,
                 faults, restarts>>

\* 9. syncPostMedia, and the call returns { title, slug, warnings }
SyncMedia(t) ==
  /\ wf[t].pc = "isp_sync"
  /\ postMedia' = postMedia \cup
       (IF isp[t].content
        THEN {[post |-> isp[t].postId, key |-> isp[t].keys[k]] :
                k \in 1..Len(isp[t].keys)}
        ELSE {})
  /\ UnitReturns(t, resultReport(posts[isp[t].postId].title,
                                 posts[isp[t].postId].slug, FALSE,
                                 isp[t].warnings))
  /\ UNCHANGED <<kv, r2, zips, posts, tags, postTags, media, resp, cache,
                 faults, restarts>>

\* the engine persists the result of the unit step
CacheUnit(t) ==
  /\ wf[t].pc = "unitRet"
  /\ cache' = [cache EXCEPT ![t].deltas = Append(@, wf[t].delta)]
  /\ wf' = [wf EXCEPT ![t].pc = "acc", ![t].attempt = 0]
  /\ UNCHANGED <<kv, r2, zips, stores, resp, isp, faults, restarts>>

\* an accumulation that loses the failed entries of the delta
accumulatedLossy(report, delta) ==
  [succeeded |-> report.succeeded \o delta.succeeded,
   failed |-> report.failed,
   warnings |-> report.warnings \o delta.warnings]

\* an accumulation that counts the delta twice
accumulatedTwice(report, delta) ==
  [succeeded |-> report.succeeded \o delta.succeeded \o delta.succeeded,
   failed |-> report.failed \o delta.failed \o delta.failed,
   warnings |-> report.warnings \o delta.warnings \o delta.warnings]

accumulated(report, delta) ==
  [succeeded |-> report.succeeded \o delta.succeeded,
   failed |-> report.failed \o delta.failed,
   warnings |-> report.warnings \o delta.warnings]

ProcessingProgress(total, completed, current, report) ==
  TaskProgress("processing", total, completed, current,
               errorsOf(report.failed), report.warnings, Null, NoReport)

\* outside the step: accumulate the delta, write the processing record
Accumulate(t) ==
  /\ wf[t].kind = "import" /\ wf[t].pc = "acc"
  /\ LET report == accumulated(wf[t].report, wf[t].delta)
         n == Len(wf[t].entries)
     IN /\ updateProgress(importProgress(t),
                          ProcessingProgress(n, wf[t].i,
                                             titleOrDir(curEntry(t)), report))
        /\ wf' = [wf EXCEPT ![t].report = report, ![t].i = @ + 1,
                            ![t].pc = IF wf[t].i < n THEN "unit" ELSE "fin"]
  /\ UNCHANGED <<r2, zips, stores, resp, cache, isp, faults, restarts>>

CompletedImportProgress(total, report) ==
  TaskProgress("completed", total, total, <<>>, errorsOf(report.failed),
               report.warnings, Null, WithReport(report))

\* step.do("finalize"): cached, or the body deletes the archive and writes
\* the completed record
Finalize(t) ==
  /\ wf[t].kind = "import" /\ wf[t].pc = "fin"
  /\ IF cache[t].fin
     THEN /\ wf' = [wf EXCEPT ![t].pc = "ret"]
          /\ UNCHANGED <<r2, kv>>
     ELSE /\ r2' = r2 \ {importZip(t)}
          /\ updateProgress(importProgress(t),
                            CompletedImportProgress(Len(wf[t].entries),
                                                    wf[t].report))
          /\ wf' = [wf EXCEPT ![t].pc = "finRet"]
  /\ UNCHANGED <<zips, stores, resp, cache, isp, faults, restarts>>

\* the engine persists the result of the finalize step
CacheFinalize(t) ==
  /\ wf[t].kind = "import" /\ wf[t].pc = "finRet"
  /\ cache' = [cache EXCEPT ![t].fin = TRUE]
  /\ wf' = [wf EXCEPT ![t].pc = "ret", ![t].attempt = 0]
  /\ UNCHANGED <<kv, r2, zips, stores, resp, isp, faults, restarts>>

\* run returns
Return(t) ==
  /\ wf[t].pc = "ret"
  /\ wf' = [wf EXCEPT ![t].pc = "done"]
  /\ UNCHANGED <<kv, r2, zips, stores, resp, cache, isp, faults, restarts>>

\* a failed record that does not carry the reason
FailedWithoutReason(message) ==
  TaskProgress("failed", 0, 0, <<>>, <<>>, <<>>, Null, NoReport)

FailedProgress(message) ==
  TaskProgress("failed", 0, 0, <<>>, <<>>, <<message>>, Null, NoReport)

\* the catch of run: the failed record, and run returns
Catch(t) ==
  /\ wf[t].pc = "catch"
  /\ updateProgress(IF wf[t].kind = "import" THEN importProgress(t)
                    ELSE exportProgress(t),
                    FailedProgress(wf[t].error))
  /\ wf' = [wf EXCEPT ![t].pc = "done"]
  /\ UNCHANGED <<r2, zips, stores, resp, cache, isp, faults, restarts>>

\* ------------------------------------------------------------------------
\* Exceptions of the stores, and the engine replaying a run
\* ------------------------------------------------------------------------
Fault == faults < MaxFaults /\ faults' = faults + 1

\* the source archive disappears from the blob store
ArchiveLost(t) ==
  /\ wf[t].kind = "import" /\ Running(t)
  /\ importZip(t) \in r2
  /\ Fault
  /\ r2' = r2 \ {importZip(t)}
  /\ UNCHANGED <<kv, zips, stores, resp, wf, cache, isp, restarts>>

\* R2.get throws inside the enumerate step
EnumerateThrows(t) ==
  /\ wf[t].kind = "import" /\ wf[t].pc = "enum" /\ ~cache[t].enum
  /\ Fault
  /\ StepFailed(t, ErrStore)
  /\ UNCHANGED <<kv, r2, zips, stores, resp, cache, isp, restarts>>

UnitThrowPcs ==
  {"isp_fetch", "isp_check", "isp_genslug", "isp_tagfind", "isp_tagins",
   "isp_insert", "isp_link", "isp_sync"}

\* a store call of importSinglePost, or the archive fetch, throws
UnitThrows(t) ==
  /\ wf[t].pc \in UnitThrowPcs
  /\ Fault
  /\ UnitThrew(t, ErrStore)
  /\ UNCHANGED <<kv, r2, zips, stores, resp, cache, restarts>>

\* updateProgress throws inside the finalize step, after the delete
FinalizeThrows(t) ==
  /\ wf[t].kind = "import" /\ wf[t].pc = "fin" /\ ~cache[t].fin
  /\ Fault
  /\ r2' = r2 \ {importZip(t)}
  /\ StepFailed(t, ErrStore)
  /\ UNCHANGED <<kv, zips, stores, resp, cache, isp, restarts>>

\* R2.delete throws inside the finalize step: the error is ignored, the
\* archive stays and the completed record is written
FinalizeDeleteThrows(t) ==
  /\ wf[t].kind = "import" /\ wf[t].pc = "fin" /\ ~cache[t].fin
  /\ Fault
  /\ updateProgress(importProgress(t),
                    CompletedImportProgress(Len(wf[t].entries), wf[t].report))
  /\ wf' = [wf EXCEPT ![t].pc = "finRet"]
  /\ UNCHANGED <<r2, zips, stores, resp, cache, isp, restarts>>

\* updateProgress throws outside a step: the exception reaches the catch
ProgressWriteThrows(t) ==
  /\ wf[t].pc \in {"empty", "acc", "xempty"}
  /\ Fault
  /\ wf' = [wf EXCEPT ![t].pc = "catch", ![t].error = ErrStore,
                      ![t].fatal = "write"]
  /\ UNCHANGED <<kv, r2, zips, stores, resp, cache, isp, restarts>>

\* updateProgress throws inside the catch: run throws, the instance is errored
CatchThrows(t) ==
  /\ wf[t].pc = "catch"
  /\ Fault
  /\ wf' = [wf EXCEPT ![t].pc = "errored"]
  /\ UNCHANGED <<kv, r2, zips, stores, resp, cache, isp, restarts>>

\* the engine restarts the run: run starts again from its first line, the
\* persisted step results are kept and returned instead of running the bodies
Restart(t) ==
  /\ Running(t)
  /\ restarts < MaxRestarts
  /\ restarts' = restarts + 1
  /\ wf' = [wf EXCEPT ![t] =
              [NoWf EXCEPT !.kind = wf[t].kind, !.mode = wf[t].mode,
                           !.filter = wf[t].filter,
                           !.pc = IF wf[t].kind = "import" THEN "enum"
                                  ELSE "xfetch"]]
  /\ isp' = [isp EXCEPT ![t] = IspIdle]
  /\ UNCHANGED <<kv, r2, zips, stores, resp, cache, faults>>

\* ------------------------------------------------------------------------
\* startExport and ExportWorkflow.run
\* ------------------------------------------------------------------------
ExportFilters == {Null, <<"draft">>}

\* EXPORT_WORKFLOW.create throws: the pending record is deleted again
StartExportCreateFailed(t) ==
  /\ resp[t] = "none"
  /\ kv' = [kv EXCEPT ![exportProgress(t)] = NoProgress]
  /\ resp' = [resp EXCEPT ![t] = "WORKFLOW_CREATE_FAILED"]
  /\ UNCHANGED <<r2, zips, stores, wf, cache, isp, faults, restarts>>

StartExportOk(t) ==
  /\ resp[t] = "none"
  /\ \E status \in ExportFilters :
       wf' = [wf EXCEPT ![t] =
                [NoWf EXCEPT !.kind = "export", !.pc = "xfetch",
                             !.filter = status]]
  /\ updateProgress(exportProgress(t), PendingProgress(<<"preparing-export">>))
  /\ resp' = [resp EXCEPT ![t] = "ok"]
  /\ UNCHANGED <<r2, zips, stores, cache, isp, faults, restarts>>

startExport(t) ==
  \/ StartExportCreateFailed(t)
  \/ StartExportOk(t)

RECURSIVE findFullPostsFrom(_, _)
\* the rows that match the status filter, newest first
findFullPostsFrom(status, n) ==
  IF n = 0 THEN <<>>
  ELSE LET older == findFullPostsFrom(status, n - 1)
       IN IF status = Null \/ posts[n].status = status
          THEN <<[id |-> n, title |-> posts[n].title, slug |-> posts[n].slug,
                  publishedAt |-> posts[n].publishedAt]>>
               \o older
          ELSE older

findFullPosts(status) == findFullPostsFrom(status, Len(posts))

\* step.do("fetch posts")
FetchPostsStep(t) ==
  /\ wf[t].kind = "export" /\ wf[t].pc = "xfetch"
  /\ LET ps == IF cache[t].fetch THEN cache[t].posts
               ELSE findFullPosts(wf[t].filter)
     IN /\ cache' = [cache EXCEPT ![t].fetch = TRUE, ![t].posts = ps]
        /\ wf' = [wf EXCEPT ![t].entries = ps, ![t].attempt = 0,
                            ![t].pc = IF ps = <<>> THEN "xempty" ELSE "xbuild"]
  /\ UNCHANGED <<kv, r2, zips, stores, resp, isp, faults, restarts>>

EmptyExportProgress ==
  TaskProgress("completed", 0, 0, <<>>, <<>>, <<WarnNoExportPosts>>, Null,
               NoReport)

\* posts.length === 0: the completed record, and run returns
EmptyExport(t) ==
  /\ wf[t].kind = "export" /\ wf[t].pc = "xempty"
  /\ updateProgress(exportProgress(t), EmptyExportProgress)
  /\ wf' = [wf EXCEPT ![t].pc = "done"]
  /\ UNCHANGED <<r2, zips, stores, resp, cache, isp, faults, restarts>>

\* step.do("build and upload export"): cached, or the body is entered
BuildStep(t) ==
  /\ wf[t].kind = "export" /\ wf[t].pc = "xbuild"
  /\ wf' = [wf EXCEPT ![t].pc = IF cache[t].build THEN "xsleep" ELSE "xb_post",
                      ![t].j = 1, ![t].warnings = <<>>]
  /\ UNCHANGED <<kv, r2, zips, stores, resp, cache, isp, faults, restarts>>

\* inside the build step: the files of post j, then the processing record
BuildPost(t) ==
  /\ wf[t].kind = "export" /\ wf[t].pc = "xb_post"
  /\ LET n == Len(wf[t].entries)
     IN /\ updateProgress(exportProgress(t),
                          TaskProgress("processing", n, wf[t].j,
                                       wf[t].entries[wf[t].j].title, <<>>,
                                       wf[t].warnings, Null, NoReport))
        /\ wf' = [wf EXCEPT ![t].j = @ + 1,
                            ![t].pc = IF wf[t].j < n THEN "xb_post" ELSE "xb_put"]
  /\ UNCHANGED <<r2, zips, stores, resp, cache, isp, faults, restarts>>

\* a build step that goes on without storing the archive
BuildPutSkipped(t) ==
  /\ wf[t].kind = "export" /\ wf[t].pc = "xb_put"
  /\ wf' = [wf EXCEPT ![t].pc = "xb_mark"]
  /\ UNCHANGED <<kv, r2, zips, stores, resp, cache, isp, faults, restarts>>

\* inside the build step: R2.put of the archive
BuildPut(t) ==
  /\ wf[t].kind = "export" /\ wf[t].pc = "xb_put"
  /\ r2' = r2 \cup {exportZip(t)}
  /\ wf' = [wf EXCEPT ![t].pc = "xb_mark"]
  /\ UNCHANGED <<kv, zips, stores, resp, cache, isp, faults, restarts>>

\* inside the build step: the completed record with the download key
BuildMark(t) ==
  /\ wf[t].kind = "export" /\ wf[t].pc = "xb_mark"
  /\ LET n == Len(wf[t].entries)
     IN updateProgress(exportProgress(t),
                       TaskProgress("completed", n, n, <<>>, <<>>,
                                    wf[t].warnings, exportZip(t), NoReport))
  /\ wf' = [wf EXCEPT ![t].pc = "xbRet"]
  /\ UNCHANGED <<r2, zips, stores, resp, cache, isp, faults, restarts>>

\* the engine persists the result of the build step
CacheBuild(t) ==
  /\ wf[t].kind = "export" /\ wf[t].pc = "xbRet"
  /\ cache' = [cache EXCEPT ![t].build = TRUE]
  /\ wf' = [wf EXCEPT ![t].pc = "xsleep", ![t].attempt = 0]
  /\ UNCHANGED <<kv, r2, zips, stores, resp, isp, faults, restarts>>

\* step.sleepUntil("cleanup delay", now + 24h) returns
CleanupDelay(t) ==
  /\ wf[t].kind = "export" /\ wf[t].pc = "xsleep"
  /\ cache' = [cache EXCEPT ![t].slept = TRUE]
  /\ wf' = [wf EXCEPT ![t].pc = "xclean"]
  /\ UNCHANGED <<kv, r2, zips, stores, resp, isp, faults, restarts>>

\* step.do("cleanup export zip")
CleanupStep(t) ==
  /\ wf[t].kind = "export" /\ wf[t].pc = "xclean"
  /\ IF cache[t].clean THEN UNCHANGED r2 ELSE r2' = r2 \ {exportZip(t)}
  /\ cache' = [cache EXCEPT ![t].clean = TRUE]
  /\ wf' = [wf EXCEPT ![t].pc = "ret"]
  /\ UNCHANGED <<kv, zips, stores, resp, isp, faults, restarts>>

\* the database throws inside the fetch step
FetchPostsThrows(t) ==
  /\ wf[t].kind = "export" /\ wf[t].pc = "xfetch" /\ ~cache[t].fetch
  /\ Fault
  /\ StepFailed(t, ErrStore)
  /\ UNCHANGED <<kv, r2, zips, stores, resp, cache, isp, restarts>>

\* updateProgress or R2.put throws inside the build step: the engine runs the
\* whole body again, or the exception reaches the catch of run
BuildThrows(t) ==
  /\ wf[t].kind = "export" /\ wf[t].pc \in {"xb_post", "xb_put", "xb_mark"}
  /\ Fault
  /\ IF wf[t].attempt + 1 < MaxAttempts
     THEN wf' = [wf EXCEPT ![t].attempt = @ + 1, ![t].pc = "xb_post",
                           ![t].j = 1, ![t].warnings = <<>>]
     ELSE wf' = [wf EXCEPT ![t].pc = "catch", ![t].attempt = 0,
                           ![t].error = ErrStore, ![t].fatal = "xbuild"]
  /\ UNCHANGED <<kv, r2, zips, stores, resp, cache, isp, restarts>>

ExportStep(t) ==
  \/ FetchPostsStep(t)
  \/ EmptyExport(t)
  \/ BuildStep(t)
  \/ BuildPost(t)
  \/ BuildPut(t)
  \/ BuildMark(t)
  \/ CacheBuild(t)
  \/ CleanupDelay(t)
  \/ CleanupStep(t)

\* R2.delete throws inside the cleanup step: the error is ignored and the
\* archive stays
CleanupDeleteThrows(t) ==
  /\ wf[t].kind = "export" /\ wf[t].pc = "xclean" /\ ~cache[t].clean
  /\ Fault
  /\ cache' = [cache EXCEPT ![t].clean = TRUE]
  /\ wf' = [wf EXCEPT ![t].pc = "ret"]
  /\ UNCHANGED <<kv, r2, zips, stores, resp, isp, restarts>>

ExportFault(t) ==
  \/ FetchPostsThrows(t)
  \/ BuildThrows(t)
  \/ CleanupDeleteThrows(t)

ImportStep(t) ==
  \/ EnumerateStep(t)
  \/ EmptyImport(t)
  \/ UnitStep(t)
  \/ FetchZip(t)
  \/ ParseContent(t)
  \/ SlugCheck(t)
  \/ UploadImages(t)
  \/ GenerateSlug(t)
  \/ TagFind(t)
  \/ TagInsert(t)
  \/ InsertPost(t)
  \/ LinkTags(t)
  \/ SyncMedia(t)
  \/ CacheUnit(t)
  \/ Accumulate(t)
  \/ Finalize(t)
  \/ CacheFinalize(t)

ImportFault(t) ==
  \/ ArchiveLost(t)
  \/ EnumerateThrows(t)
  \/ UnitThrows(t)
  \/ FinalizeThrows(t)
  \/ FinalizeDeleteThrows(t)

Next ==
  /\ \E t \in SoloTasks :
       \/ startImport(t)
       \/ ImportStep(t)
       \/ ImportFault(t)
       \/ startExport(t)
       \/ ExportStep(t)
       \/ ExportFault(t)
       \/ Return(t)
       \/ Catch(t)
       \/ ProgressWriteThrows(t)
       \/ CatchThrows(t)
       \/ Restart(t)
  /\ UNCHANGED call

Spec == Init /\ [][Next]_vars

\* ------------------------------------------------------------------------
\* Properties
\* ------------------------------------------------------------------------
progressKeyOf(t) ==
  IF wf[t].kind = "export" THEN exportProgress(t) ELSE importProgress(t)

IspPcs ==
  {"isp_fetch", "isp_parse", "isp_check", "isp_upimg", "isp_genslug",
   "isp_tagfind", "isp_tagins", "isp_insert", "isp_link", "isp_sync"}

\* C1: the status of a progress record goes pending, processing..., then one
\* terminal value, and a record with a terminal status is never changed by a
\* later write
C1_StatusLifecycle ==
  [][\A key \in ProgressKeys :
       /\ kv[key].status = "none" => kv'[key].status \in {"none", "pending"}
       /\ kv[key].status = "pending" =>
            kv'[key].status \in {"pending", "processing", "completed", "failed"}
       /\ kv[key].status = "processing" =>
            kv'[key].status \in {"processing", "completed", "failed"}
       /\ Terminal(kv[key]) => kv'[key] = kv[key]]_vars

\* C2: a unit step runs only when the steps of all earlier units have
\* returned, and from one processing record of a task to the next the
\* completed counter does not decrease and total does not change
C2_OrderedMonotonicProgress ==
  [][/\ \A t \in TaskIds :
          wf[t].pc \in IspPcs => Len(cache[t].deltas) = wf[t].i - 1
     /\ \A key \in ProgressKeys :
          kv[key].status = "processing" /\ kv'[key].status = "processing" =>
            /\ kv'[key].completed >= kv[key].completed
            /\ kv'[key].total = kv[key].total]_vars

\* the engine keeps running a started instance: every step of run that can
\* be taken is taken eventually; exceptions and restarts are never forced
Fairness ==
  \A t \in SoloTasks :
    /\ WF_vars(ImportStep(t) /\ UNCHANGED call)
    /\ WF_vars(ExportStep(t) /\ UNCHANGED call)
    /\ WF_vars(Return(t) /\ UNCHANGED call)
    /\ WF_vars(Catch(t) /\ UNCHANGED call)

FairSpec == Init /\ [][Next]_vars /\ Fairness

\* C3: every task that startImport or startExport answered with a task id
\* eventually has a progress record with status completed or failed
C3_EventuallyTerminal ==
  \A t \in TaskIds :
    (resp[t] = "ok") ~> Terminal(kv[progressKeyOf(t)])

\* the places where an exception leaves a step, or a progress write outside
\* a step throws
FatalPlaces == {"enum", "fin", "xfetch", "xbuild", "write"}

StartErrors == {"NO_FILES", "UPLOAD_FAILED", "WORKFLOW_CREATE_FAILED"}

UnitReasons == {ErrZipNotFound, ErrMetadata, ErrStore}

RECURSIVE reportOfUnits(_, _)
\* the report of the first n persisted unit results
reportOfUnits(deltas, n) ==
  IF n = 0 THEN EmptyReport
  ELSE LET r == reportOfUnits(deltas, n - 1)
       IN [succeeded |-> r.succeeded \o deltas[n].succeeded,
           failed |-> r.failed \o deltas[n].failed,
           warnings |-> r.warnings \o deltas[n].warnings]

\* C7: once the step of entry i has returned and until the next write, the
\* progress record is processing with total N, completed i, current the
\* title or directory of entry i, errors the failed units among 1..i and
\* warnings the warnings of units 1..i
C7_ProgressAfterEachUnit ==
  \A t \in TaskIds :
    /\ wf[t].kind = "import" /\ wf[t].i > 1
    /\ wf[t].pc \in IspPcs \cup {"unit", "unitRet", "fin"}
    => LET p == kv[importProgress(t)]
           i == wf[t].i - 1
           r == reportOfUnits(cache[t].deltas, i)
       IN /\ p.status = "processing"
          /\ p.total = Len(wf[t].entries)
          /\ p.completed = i
          /\ p.current = titleOrDir(wf[t].entries[i])
          /\ p.errors = [k \in 1..Len(r.failed) |->
                           [post |-> r.failed[k].title,
                            reason |-> r.failed[k].reason]]
          /\ Len(p.errors) = Cardinality({k \in 1..i :
                                            cache[t].deltas[k].failed # <<>>})
          /\ p.warnings = r.warnings

\* both entries are done: one failed and one was skipped with a warning
C7_Witness ==
  \E t \in TaskIds :
    /\ wf[t].kind = "import" /\ wf[t].pc = "fin" /\ wf[t].i = 3
    /\ kv[importProgress(t)].completed = 2
    /\ Len(kv[importProgress(t)].errors) = 1
    /\ kv[importProgress(t)].warnings # <<>>

\* the post rows that the import of unit idx of task t inserted
rowsOf(t, idx) ==
  {p \in 1..Len(posts) : posts[p].src = [task |-> t, unit |-> idx]}

\* C8: an entry has at most one post row however often its step body runs:
\* past the slug check no row of the entry exists yet, and a body that runs
\* again after the entry's row was inserted finds the slug, inserts nothing
\* and returns skipped with the slug warning
C8_RerunInsertsNoSecondRow ==
  [][\A t \in TaskIds :
       /\ \A idx \in 1..Len(zips'[t]) : Cardinality(rowsOf(t, idx)') <= 1
       /\ wf[t].pc = "isp_check" /\ rowsOf(t, curEntry(t).idx) # {}
          /\ wf'[t].pc = "unitRet" /\ faults' = faults
          => /\ posts' = posts
             /\ wf'[t].delta.succeeded = <<>>
             /\ wf'[t].delta.failed = <<>>
             /\ wf'[t].delta.warnings # <<>>
             /\ LET w == wf'[t].delta.warnings[1]
                IN w[Len(w)] = "slug-exists-skipped"
       /\ wf[t].pc = "isp_check" /\ wf'[t].pc = "isp_upimg"
          => rowsOf(t, curEntry(t).idx) = {}]_vars

\* after a restart the body of an entry ran again, found the row of its
\* first run and returned skipped
C8_Witness ==
  \E t \in TaskIds :
    /\ wf[t].pc = "unitRet" /\ restarts > 0
    /\ rowsOf(t, curEntry(t).idx) # {}
    /\ wf[t].delta.succeeded = <<>> /\ wf[t].delta.failed = <<>>
    /\ wf[t].delta.warnings # <<>>

\* C9: a call of importSinglePost that returns skipped leaves the stores and
\* the blob store as it found them
C9_SkipChangesNothing ==
  [][\A t \in TaskIds :
       /\ wf[t].pc \in IspPcs /\ wf'[t].pc = "unitRet"
       /\ wf'[t].delta.succeeded = <<>> /\ wf'[t].delta.failed = <<>>
       => StoreSnap' = isp[t].snap]_vars

\* the names of the tags a post is linked to
tagNamesOf(p) == {tags[r.tag] : r \in {q \in postTags : q.post = p}}

\* the post row with the given slug
postWithSlug(slug) == CHOOSE p \in 1..Len(posts) : posts[p].slug = slug

\* the results of the unit steps of a task, the one just returned included
resultsOf(t) ==
  SeqToSet(cache[t].deltas)
    \cup (IF wf[t].pc = "unitRet" THEN {wf[t].delta} ELSE {})

\* C10: no two tags have the same name, and a post whose import returned is
\* linked exactly once to each distinct tag name of its frontmatter; a
\* frontmatter that repeats a tag name does not make the import fail
C10_TagsUniqueAndLinkedOnce ==
  /\ \A a, b \in 1..Len(tags) : tags[a] = tags[b] => a = b
  /\ \A t \in TaskIds :
       /\ \A d \in resultsOf(t) :
            /\ \A k \in 1..Len(d.failed) : d.failed[k].reason # ErrPrimaryKey
            /\ \A k \in 1..Len(d.succeeded) :
                 LET p == postWithSlug(d.succeeded[k].slug)
                     names == SeqToSet(normalizedOf[zips[t][posts[p].src.unit]].tags)
                 IN /\ posts[p].src.task = t
                    /\ tagNamesOf(p) = names
                    /\ Cardinality({q \in postTags : q.post = p})
                         = Cardinality(names)
       /\ wf[t].pc \in {"isp_insert", "isp_link"} =>
            /\ Len(isp[t].tagIds) =
                 Cardinality(SeqToSet(normalizedOf[curUnit(t)].tags))
            /\ {tags[isp[t].tagIds[k]] : k \in 1..Len(isp[t].tagIds)}
                 = SeqToSet(normalizedOf[curUnit(t)].tags)

\* two imported posts share one tag, and one of them lists a name twice
C10_Witness ==
  \E t \in TaskIds :
    /\ Len(cache[t].deltas) = 2
    /\ cache[t].deltas[1].succeeded # <<>>
    /\ cache[t].deltas[2].succeeded # <<>>
    /\ \E p, q \in 1..Len(posts) :
         /\ p # q
         /\ tagNamesOf(p) \cap tagNamesOf(q) # {}
         /\ Len(normalizedOf[zips[t][posts[p].src.unit]].tags)
              > Cardinality(tagNamesOf(p))

\* a value that is a string, a number, a boolean or null: what a persisted
\* step result can hold
IsPlainData(x) == x.t \in {"undefined", "str", "num", "bool"}

\* C11: the value returned by every named step consists only of plain
\* serializable data: the persisted entries of the enumerate step and the
\* persisted reports of the unit steps hold strings and numbers only, and the
\* persisted rows of the fetch posts step hold no date object
C11_StepResultsArePlainData ==
  \A t \in TaskIds :
    /\ \A k \in 1..Len(cache[t].entries) :
         cache[t].entries[k].idx \in 1..Len(zips[t])
    /\ \A k \in 1..Len(cache[t].posts) :
         IsPlainData(cache[t].posts[k].publishedAt)

\* C12: when the progress record of an import task has status completed, the
\* source archive imports/<taskId>.zip is no longer in the blob store and the
\* record carries the report of the task
C12_CompletedImportHasNoArchive ==
  \A t \in TaskIds :
    kv[importProgress(t)].status = "completed" =>
      /\ importZip(t) \notin r2
      /\ kv[importProgress(t)].report.has

\* GET /download/:taskId: the archive, or not-found
downloadExport(taskId) ==
  IF exportZip(taskId) \in r2 THEN "archive" ELSE "not-found"

\* C13: the completed record of a non-empty export carries the download key
\* exports/<taskId>.zip, and as long as the cleanup step has not run, a
\* caller that reads completed with a download key finds the archive
C13_CompletedExportIsDownloadable ==
  \A t \in TaskIds :
    LET p == kv[exportProgress(t)]
    IN p.status = "completed" =>
         /\ p.total > 0 => p.downloadKey = exportZip(t)
         /\ p.downloadKey # Null =>
              /\ p.downloadKey = exportZip(t)
              /\ ~cache[t].clean => downloadExport(t) = "archive"

C13_Witness ==
  \E t \in TaskIds :
    /\ kv[exportProgress(t)].status = "completed"
    /\ kv[exportProgress(t)].downloadKey = exportZip(t)
    /\ kv[exportProgress(t)].total = 2
    /\ ~cache[t].clean
    /\ downloadExport(t) = "archive"

\* C14: a stored export archive leaves the blob store only in the cleanup
\* step, which runs after the build step succeeded and the cleanup delay has
\* passed; and every stored export archive is eventually deleted, after which
\* downloadExport answers not-found for good
C14_ArchiveDeletedByCleanupEventually ==
  /\ [][\A t \in TaskIds :
         (exportZip(t) \in r2 /\ exportZip(t) \notin r2') =>
           /\ wf[t].pc = "xclean"
           /\ cache[t].build /\ cache[t].slept]_vars
  /\ \A t \in TaskIds :
       (exportZip(t) \in r2) ~> [](downloadExport(t) = "not-found")

\* ------------------------------------------------------------------------
\* Two tasks running side by side
\* ------------------------------------------------------------------------
\* both task ids are free, the store holds posts to export, and one progress
\* write may throw
PairInit ==
  /\ kv = [k \in ProgressKeys |-> NoProgress]
  /\ r2 = {}
  /\ zips = [t \in TaskIds |-> <<>>]
  /\ posts = <<SeedPost, SeedDraft>>
  /\ tags = <<>>
  /\ postTags = {}
  /\ media = {}
  /\ postMedia = {}
  /\ resp = [t \in TaskIds |-> "none"]
  /\ wf = [t \in TaskIds |-> NoWf]
  /\ cache = [t \in TaskIds |-> NoCache]
  /\ isp = [t \in TaskIds |-> IspIdle]
  /\ faults = MaxFaults - 1
  /\ restarts = MaxRestarts
  /\ call = NoCall

PairNext ==
  /\ \E t \in TaskIds :
       \/ startImport(t)
       \/ ImportStep(t)
       \/ startExport(t)
       \/ ExportStep(t)
       \/ Return(t)
       \/ Catch(t)
       \/ ProgressWriteThrows(t)
  /\ UNCHANGED call

PairSpec == PairInit /\ [][PairNext]_vars

\* the call and the workflow of task t take no part in the step
Idle(t) ==
  /\ resp'[t] = resp[t]
  /\ wf'[t] = wf[t]
  /\ isp'[t] = isp[t]
  /\ cache'[t] = cache[t]

\* C15: a step of one task changes neither the progress records nor the
\* archives of another task, whatever the two tasks are and however their
\* steps interleave
C15_TasksAreIndependent ==
  [][\A t \in TaskIds :
       Idle(t) =>
         /\ kv'[importProgress(t)] = kv[importProgress(t)]
         /\ kv'[exportProgress(t)] = kv[exportProgress(t)]
         /\ (importZip(t) \in r2') = (importZip(t) \in r2)
         /\ (exportZip(t) \in r2') = (exportZip(t) \in r2)
         /\ zips'[t] = zips[t]]_vars

C15_Witness ==
  /\ wf["t1"].kind = "import" /\ wf["t2"].kind = "import"
  /\ wf["t1"].pc \in IspPcs /\ wf["t2"].pc = "acc"
  /\ kv[importProgress("t1")].status = "processing"
  /\ kv[importProgress("t1")].completed = 1
  /\ kv[importProgress("t2")].status = "pending"

\* ------------------------------------------------------------------------
\* Helper functions called on their own
\* ------------------------------------------------------------------------
\* the stores and the workflows at rest, while a helper is called
AtRest ==
  /\ kv = [k \in ProgressKeys |-> NoProgress]
  /\ r2 = {}
  /\ zips = [t \in TaskIds |-> <<>>]
  /\ posts = <<>>
  /\ tags = <<>>
  /\ postTags = {}
  /\ media = {}
  /\ postMedia = {}
  /\ resp = [t \in TaskIds |-> "none"]
  /\ wf = [t \in TaskIds |-> NoWf]
  /\ cache = [t \in TaskIds |-> NoCache]
  /\ isp = [t \in TaskIds |-> IspIdle]
  /\ faults = 0
  /\ restarts = 0

machine ==
  <<kv, r2, zips, posts, tags, postTags, media, postMedia, resp, wf, cache,
    isp, faults, restarts>>

RECURSIVE StringsUpTo(_, _)
\* the strings of at most n characters of S
StringsUpTo(S, n) ==
  IF n = 0 THEN {<<>>}
  ELSE LET shorter == StringsUpTo(S, n - 1)
       IN shorter \cup {Append(pr[1], pr[2]) : pr \in shorter \X S}

\* relative.replace(/^\.\//, "")
stripDotSlash(relative) ==
  IF Len(relative) >= 2 /\ relative[1] = "." /\ relative[2] = "/"
  THEN SubSeq(relative, 3, Len(relative))
  ELSE relative

\* a pop that removes nothing
popNothing(parts) == parts

\* parts.pop()
popLast(parts) ==
  IF parts = <<>> THEN parts ELSE SubSeq(parts, 1, Len(parts) - 1)

RECURSIVE walkSegments(_, _)
\* for (const segment of cleaned.split("/"))
walkSegments(parts, segments) ==
  IF segments = <<>> THEN parts
  ELSE LET segment == Head(segments)
           next == IF segment = <<".", ".">> THEN popLast(parts)
                   ELSE IF segment # <<".">> THEN Append(parts, segment)
                   ELSE parts
       IN walkSegments(next, Tail(segments))

RECURSIVE JoinWith(_, _)
\* parts.join(c)
JoinWith(parts, c) ==
  IF parts = <<>> THEN <<>>
  ELSE IF Len(parts) = 1 THEN parts[1]
  ELSE parts[1] \o <<c>> \o JoinWith(Tail(parts), c)

resolveRelativePath(base, relative) ==
  LET cleaned == stripDotSlash(relative)
  IN IF base = <<>> THEN cleaned
     ELSE JoinWith(walkSegments(SplitOn(base, "/"), SplitOn(cleaned, "/")), "/")

\* the base directories and the references resolveRelativePath is called with
PathBases ==
  StringsUpTo({"a", "/"}, MaxBaseLen) \cup {<<"a", "/", "b", "/", "c">>}

PathRefs ==
  StringsUpTo({".", "/", "x"}, MaxRefLen)
  \cup {<<".", ".", "/", ".", ".", "/", "img.jpg">>, <<".", "/", "x.jpg">>}

PathInit ==
  /\ AtRest
  /\ call \in {[fn |-> "resolveRelativePath", base |-> b, ref |-> r,
                 done |-> FALSE, out |-> <<>>] :
                 b \in PathBases, r \in PathRefs}

\* one call of resolveRelativePath(base, ref)
ResolveRelativePath ==
  /\ call.fn = "resolveRelativePath" /\ ~call.done
  /\ call' = [call EXCEPT !.done = TRUE,
                          !.out = resolveRelativePath(call.base, call.ref)]
  /\ UNCHANGED machine

PathNext == ResolveRelativePath

PathSpec == PathInit /\ [][PathNext]_vars

RECURSIVE segmentsAfter(_, _, _)
\* the segments after the first n segments of the reference were applied to
\* the segments of the base, as the description of the function has it
segmentsAfter(baseSegs, refSegs, n) ==
  IF n = 0 THEN baseSegs
  ELSE LET before == segmentsAfter(baseSegs, refSegs, n - 1)
           g == refSegs[n]
       IN IF g = <<".", ".">>
          THEN [k \in 1..(IF Len(before) = 0 THEN 0 ELSE Len(before) - 1) |->
                  before[k]]
          ELSE IF g = <<".">> THEN before
          ELSE before \o <<g>>

\* C20: resolveRelativePath strips one leading ./ from the reference; with an
\* empty base the stripped reference is the result; otherwise the segments of
\* the reference are applied in order to the segments of the base (.. removes
\* the last one, . changes nothing, any other is appended) and the result is
\* their join with /; so ("a/b/c", "../../img.jpg") gives "a/img.jpg" and
\* ("", "./x.jpg") gives "x.jpg"
C20_ResolveRelativePath ==
  (call.fn = "resolveRelativePath" /\ call.done) =>
    LET stripped == IF IsPrefix(<<".", "/">>, call.ref)
                    THEN SubSeq(call.ref, 3, Len(call.ref)) ELSE call.ref
        refSegs == SplitOn(stripped, "/")
        segs == segmentsAfter(SplitOn(call.base, "/"), refSegs, Len(refSegs))
    IN /\ call.base = <<>> => call.out = stripped
       /\ call.base # <<>> =>
            /\ segs # <<>> => SplitOn(call.out, "/") = segs
            /\ segs = <<>> => call.out = <<>>
       /\ (call.base = <<"a", "/", "b", "/", "c">>
            /\ call.ref = <<".", ".", "/", ".", ".", "/", "img.jpg">>) =>
            call.out = <<"a", "/", "img.jpg">>
       /\ (call.base = <<>> /\ call.ref = <<".", "/", "x.jpg">>) =>
            call.out = <<"x.jpg">>

C20_Witness ==
  /\ call.fn = "resolveRelativePath" /\ call.done
  /\ call.base = <<"a", "/", "a">>
  /\ call.ref = <<".", "/", ".", ".">>
  /\ call.out = <<"a">>

\* the raw field records normalizeFrontmatter is called with: each group of
\* fields takes values that are absent, of the expected type, or of another
RawTitles == {Absent, Str(<<"T">>), Num(1)}

RawSlugs ==
  {[slug |-> a, url |-> b, permalink |-> c] :
     a \in {Absent, Str(<<"s">>), Num(1)},
     b \in {Absent, Str(<<"/", "p", "/", "u", "/">>)},
     c \in {Absent, Str(<<"/">>)}}

RawSummaries ==
  {[summary |-> a, description |-> b, excerpt |-> c] :
     a \in {Absent, Str(<<"m">>)},
     b \in {Absent, Str(<<"d">>)},
     c \in {Str(<<"e">>)}}
  \cup {[summary |-> Absent, description |-> Absent, excerpt |-> Absent]}

RawStatuses ==
  {[draft |-> a, status |-> b] :
     a \in {Absent, Bool(TRUE), Bool(FALSE)},
     b \in {Absent, Str(<<"draft">>), Str(<<"published">>),
            Str(<<"private">>)}}

RawTags ==
  {[tags |-> a, categories |-> b] :
     a \in {Absent, Arr(<<Str(<<"y">>), Num(1), Str(<<"x">>)>>)}
           \cup {Arr(xs) : xs \in StringsUpTo({Str(<<"x">>), Num(1)}, MaxItems)},
     b \in {Absent, Arr(<<Str(<<"y">>), Str(<<"x">>)>>)}}

RawRest ==
  {[date |-> Absent, readTimeInMinutes |-> Absent],
   [date |-> Str(<<"2024-01-15">>), readTimeInMinutes |-> Num(5)]}

RawRecords ==
  {[NoFields EXCEPT !.title = t,
                    !.slug = g.slug, !.url = g.url, !.permalink = g.permalink,
                    !.summary = m.summary, !.description = m.description,
                    !.excerpt = m.excerpt,
                    !.draft = d.draft, !.status = d.status,
                    !.tags = c.tags, !.categories = c.categories,
                    !.date = r.date,
                    !.readTimeInMinutes = r.readTimeInMinutes] :
     t \in RawTitles, g \in RawSlugs, m \in RawSummaries, d \in RawStatuses,
     c \in RawTags, r \in RawRest}

FrontmatterInit ==
  /\ AtRest
  /\ call \in {[fn |-> "normalizeFrontmatter", data |-> d, done |-> FALSE,
                 out |-> Rejected] : d \in RawRecords}

\* one call of normalizeFrontmatter(data)
NormalizeFrontmatter ==
  /\ call.fn = "normalizeFrontmatter" /\ ~call.done
  /\ call' = [call EXCEPT !.done = TRUE,
                          !.out = normalizeFrontmatter(call.data)]
  /\ UNCHANGED machine

FrontmatterNext == NormalizeFrontmatter

FrontmatterSpec == FrontmatterInit /\ [][FrontmatterNext]_vars

\* C17: normalizeFrontmatter returns null only when no title can be
\* extracted: it returns a record for every raw record whose title is a
\* string, whatever its other fields, and null for every other raw record
C17_NullOnlyWithoutTitle ==
  (call.fn = "normalizeFrontmatter" /\ call.done) =>
    (call.out.ok <=> IsStr(call.data.title))

\* the first of the fields that is given (neither undefined nor null)
firstGiven(fields) ==
  IF \A k \in 1..Len(fields) : fields[k].t = "undefined" THEN Absent
  ELSE fields[CHOOSE k \in 1..Len(fields) :
                /\ fields[k].t # "undefined"
                /\ \A h \in 1..(k - 1) : fields[h].t = "undefined"]

\* the last non-empty path segment of a string that has one
lastSegment(path) ==
  LET e == CHOOSE k \in 1..Len(path) :
             path[k] # "/" /\ \A h \in (k + 1)..Len(path) : path[h] = "/"
      b == IF \E k \in 1..e : path[k] = "/"
           THEN CHOOSE k \in 1..e :
                  path[k] = "/" /\ \A h \in (k + 1)..e : path[h] # "/"
           ELSE 0
  IN SubSeq(path, b + 1, e)

\* C18: in the record normalizeFrontmatter returns, draft: true gives status
\* draft whatever the status field says, and the status is published when
\* neither is given; the slug is the last non-empty path segment of the first
\* given of slug, url, permalink; the summary is the first given of summary,
\* description, excerpt; the tags are the string items, in their order, of
\* the first given of tags, categories
C18_DialectPrecedence ==
  (call.fn = "normalizeFrontmatter" /\ call.done /\ call.out.ok) =>
    LET data == call.data
        out == call.out
        draft == data.draft.t = "bool" /\ data.draft.v
        slugSource == firstGiven(<<data.slug, data.url, data.permalink>>)
        summarySource ==
          firstGiven(<<data.summary, data.description, data.excerpt>>)
        tagsSource == firstGiven(<<data.tags, data.categories>>)
    IN /\ draft => out.status = <<"draft">>
       /\ (data.draft.t = "undefined" /\ data.status.t = "undefined") =>
            out.status = <<"published">>
       /\ (~draft /\ IsStr(data.status)) => out.status = data.status.v
       /\ (IsStr(slugSource) /\ \E k \in 1..Len(slugSource.v) :
                                   slugSource.v[k] # "/") =>
            out.slug = lastSegment(slugSource.v)
       /\ IsStr(summarySource) => out.summary = summarySource.v
       /\ summarySource.t = "undefined" => out.summary = Null
       /\ tagsSource.t = "arr" =>
            /\ Len(out.tags) = Cardinality({k \in 1..Len(tagsSource.v) :
                                              IsStr(tagsSource.v[k])})
            /\ \A k \in 1..Len(out.tags) :
                 \E h \in k..Len(tagsSource.v) :
                   /\ IsStr(tagsSource.v[h]) /\ tagsSource.v[h].v = out.tags[k]
                   /\ Cardinality({g \in 1..h : IsStr(tagsSource.v[g])}) = k
       /\ tagsSource.t = "undefined" => out.tags = <<>>

C18_Witness ==
  /\ call.fn = "normalizeFrontmatter" /\ call.done /\ call.out.ok
  /\ call.data.draft.t = "bool" /\ call.data.draft.v
  /\ call.data.status.t = "str" /\ call.data.status.v = <<"published">>
  /\ call.out.status = <<"draft">>
  /\ call.data.slug.t = "undefined" /\ call.data.url.t = "str"
  /\ call.out.slug = <<"u">>
  /\ call.data.summary.t = "undefined" /\ call.data.description.t = "str"
  /\ call.out.summary = <<"d">>
  /\ call.data.tags.t = "undefined" /\ call.data.categories.t = "arr"
  /\ call.out.tags = <<<<"y">>, <<"x">>>>

\* ------------------------------------------------------------------------
\* stringifyFrontmatter and parseFrontmatter
\* ------------------------------------------------------------------------
\* JSON.parse(JSON.stringify(frontmatter)): the fields as values, those that
\* are undefined dropped
jsonClean(frontmatter) ==
  LET opt(x) == IF x = Null THEN Absent ELSE Str(x)
  IN [NoFields EXCEPT
        !.title = Str(frontmatter.title),
        !.slug = Str(frontmatter.slug),
        !.summary = opt(frontmatter.summary),
        !.status = Str(frontmatter.status),
        !.publishedAt = opt(frontmatter.publishedAt),
        !.createdAt = opt(frontmatter.createdAt),
        !.updatedAt = opt(frontmatter.updatedAt),
        !.readTimeInMinutes = Num(frontmatter.readTimeInMinutes),
        !.tags = Arr([k \in 1..Len(frontmatter.tags) |->
                        Str(frontmatter.tags[k])])]

\* the value a plain YAML scalar is read as
yamlResolve(text) ==
  IF text = <<>> \/ text = <<"null">> THEN Absent
  ELSE IF text = <<"true">> THEN Bool(TRUE)
  ELSE IF text = <<"false">> THEN Bool(FALSE)
  ELSE IF \A k \in 1..Len(text) : text[k] \in DigitSet THEN Num(ParseInt(text))
  ELSE IF text[1] \in DayTokens
          /\ (Len(text) = 1 \/ (Len(text) = 2 /\ text[2] = IsoSuffix))
       THEN DateObj(text[1])
  ELSE Str(text)

NoNode == [kind |-> "none", style |-> "plain", text |-> <<>>]

\* the YAML scalar written for a string or a number: a string that a reader
\* would take for another type is quoted
yamlScalar(value) ==
  IF value.t = "num"
  THEN [kind |-> "scalar", style |-> "plain", text |-> ToDigits(value.v)]
  ELSE [kind |-> "scalar",
        style |-> IF yamlResolve(value.v).t # "str" THEN "quoted" ELSE "plain",
        text |-> value.v]

\* the YAML node written for a field
yamlDump(value) ==
  IF value.t = "undefined" THEN [node |-> NoNode, items |-> <<>>]
  ELSE IF value.t = "arr"
       THEN [node |-> [NoNode EXCEPT !.kind = "seq"],
             items |-> [k \in 1..Len(value.v) |-> yamlScalar(value.v[k])]]
       ELSE [node |-> yamlScalar(value), items |-> <<>>]

yamlLoadScalar(node) ==
  IF node.style = "quoted" THEN Str(node.text) ELSE yamlResolve(node.text)

\* the value read from the YAML node of a field
yamlLoad(field) ==
  IF field.node.kind = "none" THEN Absent
  ELSE IF field.node.kind = "seq"
       THEN Arr([k \in 1..Len(field.items) |-> yamlLoadScalar(field.items[k])])
       ELSE yamlLoadScalar(field.node)

FieldNames == DOMAIN NoFields

\* matter.stringify(markdownContent, clean): the metadata block and the
\* content, which ends with a line break
stringifyFrontmatter(frontmatter, markdownContent) ==
  LET clean == jsonClean(frontmatter)
  IN [front |-> [f \in FieldNames |-> yamlDump(clean[f])],
      content |-> IF markdownContent # <<>>
                     /\ markdownContent[Len(markdownContent)] = "\n"
                  THEN markdownContent
                  ELSE markdownContent \o <<"\n">>]

\* matter(raw): { data, content }
parseFrontmatter(raw) ==
  [data |-> [f \in FieldNames |-> yamlLoad(raw.front[f])],
   content |-> raw.content]

\* the canonical records and bodies of the round trip
CanonicalRecords ==
  {[ok |-> TRUE, title |-> t, slug |-> g, summary |-> m, status |-> st,
    publishedAt |-> p, createdAt |-> c, updatedAt |-> u,
    readTimeInMinutes |-> n, tags |-> tg] :
     t \in {<<"T">>, <<"1">>, <<"true">>, <<>>},
     g \in {<<>>, <<"s">>},
     m \in {Null, <<"m">>, <<"2024-01-15">>},
     st \in POST_STATUSES,
     p \in {Null, <<"2024-06-15", IsoSuffix>>},
     c \in {Null, <<"2024-01-15", IsoSuffix>>},
     u \in {Null, <<"2024-06-15", IsoSuffix>>},
     n \in {1, 3},
     tg \in {<<x>> : x \in {<<"1">>, <<"x">>}}
            \cup StringsUpTo({<<"x">>, <<"null">>}, MaxItems)}

Bodies == {<<>>, <<"b">>, <<" ", "b", "\n">>, <<"\n", "b", " ", "b">>}

CodecInit ==
  /\ AtRest
  /\ call \in {[fn |-> "roundTrip", m |-> m, body |-> b, done |-> FALSE,
                 out |-> Rejected, content |-> <<>>, again |-> Rejected] :
                 m \in CanonicalRecords, b \in Bodies}

\* parseFrontmatter(stringifyFrontmatter(m, body)), its data normalized; and
\* normalizeFrontmatter of m itself
RoundTrip ==
  /\ call.fn = "roundTrip" /\ ~call.done
  /\ LET parsed == parseFrontmatter(stringifyFrontmatter(call.m, call.body))
     IN call' = [call EXCEPT !.done = TRUE,
                             !.out = normalizeFrontmatter(parsed.data),
                             !.content = parsed.content,
                             !.again = normalizeFrontmatter(jsonClean(call.m))]
  /\ UNCHANGED machine

CodecNext == RoundTrip

CodecSpec == CodecInit /\ [][CodecNext]_vars

\* C19: for a canonical record m and a body b, the metadata parsed from
\* stringifyFrontmatter(m, b) normalizes to m, the parsed body is b up to
\* surrounding whitespace, and normalizing m itself returns m
C19_FrontmatterRoundTrip ==
  (call.fn = "roundTrip" /\ call.done) =>
    /\ call.out = call.m
    /\ trim(call.content) = trim(call.body)
    /\ call.again = call.m

C19_Witness ==
  /\ call.fn = "roundTrip" /\ call.done
  /\ call.m.title = <<"1">>
  /\ call.m.publishedAt = <<"2024-06-15", IsoSuffix>>
  /\ call.m.tags = <<<<"x">>, <<"null">>>>
  /\ call.out = call.m
  /\ call.body = <<" ", "b", "\n">>
  /\ call.content = <<" ", "b", "\n">>

\* ------------------------------------------------------------------------
\* Export of one stored post and import of the archive under a new slug
\* ------------------------------------------------------------------------
\* a node of a content tree: its type and, for an image, its src
Node(type, src) == [type |-> type, src |-> src]

ServingPrefix == "/images/"

QualitySuffix == "?quality=80"

\* extractImageKey(src): the storage key of a src served by the site, the
\* query left out; Null for any other src
extractImageKey(src) ==
  IF src # <<>> /\ src[1] = ServingPrefix
  THEN SelectSeq(Tail(src), LAMBDA c : c # QualitySuffix)
  ELSE Null

\* extractAllImageKeys(doc)
extractAllImageKeys(doc) ==
  Dedup(SelectSeq([k \in 1..Len(doc) |->
                     IF doc[k].type = "image" /\ doc[k].src # <<>>
                     THEN extractImageKey(doc[k].src) ELSE Null],
                  LAMBDA key : key # Null /\ key # <<>>))

\* rewriteImagePaths(doc, rewriteMap): rewriteMap is a sequence of
\* <<oldKey, newKey>>
rewriteImagePaths(doc, rewriteMap) ==
  [k \in 1..Len(doc) |->
     IF doc[k].type = "image" /\ doc[k].src # <<>>
        /\ \E h \in 1..Len(rewriteMap) :
             rewriteMap[h][1] = extractImageKey(doc[k].src)
     THEN LET h == CHOOSE j \in 1..Len(rewriteMap) :
                     rewriteMap[j][1] = extractImageKey(doc[k].src)
          IN Node("image",
                  <<ServingPrefix>> \o rewriteMap[h][2] \o <<QualitySuffix>>)
     ELSE doc[k]]

\* JSON.stringify(post.contentJson, null, 2)
jsonStringify(doc) == [k \in 1..Len(doc) |-> <<doc[k].type, doc[k].src>>]

\* readJsonFile(zipFiles, `${entry.prefix}/content.json`)
readJsonFile(text) == [k \in 1..Len(text) |-> Node(text[k][1], text[k][2])]

\* the files the build step writes for one post; blobs are the keys the
\* blob store holds
exportedFiles(post, blobs) ==
  LET frontmatter ==
        [ok |-> TRUE, title |-> post.title, slug |-> post.slug,
         summary |-> post.summary, status |-> post.status,
         publishedAt |-> IF post.publishedAt.t = "date"
                         THEN toISOString(post.publishedAt) ELSE Null,
         createdAt |-> toISOString(post.createdAt),
         updatedAt |-> toISOString(post.updatedAt),
         readTimeInMinutes |-> post.readTimeInMinutes,
         tags |-> post.tags]
      imageKeys == extractAllImageKeys(post.contentJson)
  IN [frontmatter |-> frontmatter,
      contentJson |-> jsonStringify(post.contentJson),
      images |-> SelectSeq(imageKeys, LAMBDA key : key \in blobs)]

\* what importSinglePost stores in native mode for an entry whose slug is
\* free: the inserted row, the tag names linked to it and its warnings
importedPost(files, slug, blobs) ==
  LET indexMd == stringifyFrontmatter([files.frontmatter EXCEPT !.slug = slug],
                                      <<>>)
      normalized == normalizeFrontmatter(parseFrontmatter(indexMd).data)
      contentJson == readJsonFile(files.contentJson)
      newKeys == freshKeys(blobs, Len(files.images))
      rewriteMap == [k \in 1..Len(files.images) |-> <<files.images[k], newKeys[k]>>]
  IN [title |-> titleOf(normalized),
      slug |-> slugify(candidateSlugOf(normalized)),
      summary |-> normalized.summary,
      status |-> IF normalized.status = <<"draft">> THEN <<"draft">>
                 ELSE <<"published">>,
      readTimeInMinutes |-> normalized.readTimeInMinutes,
      contentJson |-> IF rewriteMap # <<>>
                      THEN rewriteImagePaths(contentJson, rewriteMap)
                      ELSE contentJson,
      tags |-> uniqueTagsOf(normalized.tags)]

ImageKey == <<"img", "1">>

\* the content trees of the stored post: without an image, with an image the
\* site serves, with an image of another site
Trees ==
  {<<Node("paragraph", <<>>)>>,
   <<Node("paragraph", <<>>),
     Node("image", <<ServingPrefix>> \o ImageKey \o <<QualitySuffix>>)>>,
   <<Node("image", <<ServingPrefix>> \o ImageKey), Node("paragraph", <<>>)>>,
   <<Node("image", <<"https://x/i.png">>)>>}

StoredPosts ==
  {[title |-> <<"T">>, slug |-> <<"a">>, summary |-> m, status |-> st,
    publishedAt |-> p, createdAt |-> DateObj("2024-01-15"),
    updatedAt |-> DateObj("2024-06-15"), readTimeInMinutes |-> n,
    contentJson |-> doc, tags |-> tg] :
     m \in {Null, <<"m">>}, st \in POST_STATUSES,
     p \in {Absent, DateObj("2024-06-15")}, n \in {1, 5}, doc \in Trees,
     tg \in {<<<<"x">>, <<"y">>>>, <<<<"1">>, <<"x">>>>, <<>>}}

NoFiles == [frontmatter |-> Rejected, contentJson |-> <<>>, images |-> <<>>]

NoRow == [title |-> Null]

ExchangeInit ==
  /\ AtRest
  /\ call \in {[fn |-> "exchange", post |-> post, blobs |-> blobs,
                 stage |-> "stored", files |-> NoFiles, row |-> NoRow] :
                 post \in StoredPosts, blobs \in {{}, {ImageKey}}}

\* the build step writes the files of the post
ExportPost ==
  /\ call.fn = "exchange" /\ call.stage = "stored"
  /\ call' = [call EXCEPT !.stage = "exported",
                          !.files = exportedFiles(call.post, call.blobs)]
  /\ UNCHANGED machine

\* the archive is imported under the slug "b"
ImportPost ==
  /\ call.fn = "exchange" /\ call.stage = "exported"
  /\ call' = [call EXCEPT !.stage = "imported",
                          !.row = importedPost(call.files, <<"b">>, call.blobs)]
  /\ UNCHANGED machine

ExchangeNext == ExportPost \/ ImportPost

ExchangeSpec == ExchangeInit /\ [][ExchangeNext]_vars

\* a stored post with two tags and an image that the site serves
TwoTagsAndImage(post) ==
  /\ Len(post.tags) = 2
  /\ extractAllImageKeys(post.contentJson) # <<>>

\* C16: after the export of a stored post with two tags and an embedded
\* image and the import of the archive under a new slug, the stored post has
\* the title, summary, status, read time and content tree of the original,
\* and the same set of tag names
C16_ExportImportPreservesPost ==
  (call.fn = "exchange" /\ call.stage = "imported"
   /\ TwoTagsAndImage(call.post)) =>
    /\ call.row.title = call.post.title
    /\ call.row.summary = call.post.summary
    /\ call.row.status = call.post.status
    /\ call.row.readTimeInMinutes = call.post.readTimeInMinutes
    /\ SeqToSet(call.row.tags) = SeqToSet(call.post.tags)
    /\ call.row.contentJson = call.post.contentJson

\* ------------------------------------------------------------------------
\* enumerateNativePosts and enumerateMarkdownPosts on the paths of an archive
\* ------------------------------------------------------------------------
MaxFiles == 3

\* a file of an archive: its path ("/" and the extension are tokens of their
\* own) and its text, given by its length and by the metadata that
\* parseFrontmatter reads from it
ZipFile(path, chars, data) == [path |-> path, chars |-> chars, data |-> data]

PostsPrefix == <<"posts", "/">>

MdExtension == ".md"

ReservedPrefix == "__MACOSX"

\* the null of readTextFile
NoText == ZipFile(Null, 0, NoFields)

\* readTextFile(files, path): the text of the file, or null
readTextFile(files, path) ==
  IF \E k \in 1..Len(files) : files[k].path = path
  THEN files[CHOOSE k \in 1..Len(files) : files[k].path = path]
  ELSE NoText

\* mdContent ? parseFrontmatter(mdContent) : null, then
\* parsed ? normalizeFrontmatter(parsed.data) : null
normalizedText(mdContent) ==
  IF mdContent.path = Null \/ mdContent.chars = 0 THEN Rejected
  ELSE normalizeFrontmatter(mdContent.data)

\* a directory listing that keeps every occurrence of a directory name
listEveryDirectory(files, prefix) ==
  LET names == [k \in 1..Len(files) |->
                  IF IsPrefix(prefix, files[k].path)
                  THEN SplitOn(SubSeq(files[k].path, Len(prefix) + 1,
                                      Len(files[k].path)), "/")[1]
                  ELSE <<>>]
  IN SelectSeq(names, LAMBDA dirName : dirName # <<>>)

\* listDirectories(files, prefix): the first segment after the prefix of
\* every path that starts with it, each name once, in the order of the paths
listDirectories(files, prefix) ==
  LET names == [k \in 1..Len(files) |->
                  IF IsPrefix(prefix, files[k].path)
                  THEN SplitOn(SubSeq(files[k].path, Len(prefix) + 1,
                                      Len(files[k].path)), "/")[1]
                  ELSE <<>>]
  IN Dedup(SelectSeq(names, LAMBDA dirName : dirName # <<>>))

PostEntry(dir, title, prefix, mdPath) ==
  [dir |-> dir, title |-> title, prefix |-> prefix, mdPath |-> mdPath]

\* .filter((e) => e !== null)
notNull(entries) == SelectSeq(entries, LAMBDA e : e.dir # Null)

NullEntry == PostEntry(Null, Null, Null, Null)

\* enumerateNativePosts(zipFiles) on the paths of the archive
enumerateNativePaths(zipFiles) ==
  LET dirs == listDirectories(zipFiles, PostsPrefix)
  IN notNull([k \in 1..Len(dirs) |->
       LET prefix == PostsPrefix \o dirs[k]
           normalized ==
             normalizedText(readTextFile(zipFiles,
                                         prefix \o <<"/", "index", MdExtension>>))
       IN IF ~normalized.ok THEN NullEntry
          ELSE PostEntry(dirs[k], normalized.title, prefix, Null)])

\* p.endsWith(".md") && !p.startsWith("__MACOSX")
isMarkdownPath(p) ==
  p # <<>> /\ p[Len(p)] = MdExtension /\ p[1] # ReservedPrefix

\* the index of the last "/" of a path, 0 when it has none
lastSlash(path) ==
  IF \E k \in 1..Len(path) : path[k] = "/"
  THEN CHOOSE k \in 1..Len(path) :
         path[k] = "/" /\ \A h \in (k + 1)..Len(path) : path[h] # "/"
  ELSE 0

\* enumerateMarkdownPosts(zipFiles) on the paths of the archive
enumerateMarkdownPaths(zipFiles) ==
  LET mdFiles == SelectSeq([k \in 1..Len(zipFiles) |-> zipFiles[k].path],
                           isMarkdownPath)
  IN notNull([k \in 1..Len(mdFiles) |->
       LET path == mdFiles[k]
           stem == SubSeq(path, 1, Len(path) - 1)
           last == SubSeq(stem, lastSlash(stem) + 1, Len(stem))
           dir == IF last # <<>> THEN last ELSE path
           normalized == normalizedText(readTextFile(zipFiles, path))
       IN IF ~normalized.ok THEN NullEntry
          ELSE PostEntry(dir, normalized.title,
                         SubSeq(path, 1, lastSlash(path) - 1), path)])

Titled == [NoFields EXCEPT !.title = Str(<<"T">>)]

Untitled == [NoFields EXCEPT !.summary = Str(<<"m">>)]

\* the files an archive can hold
ZipFilePool ==
  {ZipFile(p, 1, d) :
     p \in {<<"posts", "/", "a", "/", "index", MdExtension>>,
            <<"posts", "/", "b", "/", "index", MdExtension>>,
            <<"a", MdExtension>>,
            <<ReservedPrefix, "/", "a", MdExtension>>},
     d \in {Titled, Untitled}}
  \cup {ZipFile(<<"posts", "/", "a", "/", "index", MdExtension>>, 0, NoFields),
        ZipFile(<<"posts", "/", "a", "/", "content", ".json">>, 1, NoFields),
        ZipFile(<<"posts", "/", "c", MdExtension>>, 1, Titled),
        ZipFile(<<"posts", "/">>, 0, NoFields)}

\* the archives: up to MaxFiles files with different paths
Archives ==
  {fs \in SeqsUpTo(ZipFilePool, MaxFiles) :
     \A k, h \in 1..Len(fs) : fs[k].path = fs[h].path => k = h}

EnumerateInit ==
  /\ AtRest
  /\ call \in {[fn |-> "enumerate", mode |-> md, files |-> fs, runs |-> 0,
                 out |-> <<>>, again |-> <<>>] :
                 md \in {"native", "markdown"}, fs \in Archives}

enumeratePaths(mode, files) ==
  IF mode = "native" THEN enumerateNativePaths(files)
  ELSE enumerateMarkdownPaths(files)

\* the enumerate step runs its body
EnumeratePaths ==
  /\ call.fn = "enumerate" /\ call.runs = 0
  /\ call' = [call EXCEPT !.runs = 1,
                          !.out = enumeratePaths(call.mode, call.files)]
  /\ UNCHANGED machine

\* the body runs again on the same archive
EnumerateAgain ==
  /\ call.fn = "enumerate" /\ call.runs = 1
  /\ call' = [call EXCEPT !.runs = 2,
                          !.again = enumeratePaths(call.mode, call.files)]
  /\ UNCHANGED machine

EnumerateNext == EnumeratePaths \/ EnumerateAgain

EnumerateSpec == EnumerateInit /\ [][EnumerateNext]_vars

\* the first file of the archive that lies below the directory
firstBelow(files, prefix) ==
  CHOOSE k \in 1..Len(files) :
    /\ IsPrefix(prefix \o <<"/">>, files[k].path)
    /\ \A h \in 1..(k - 1) : ~IsPrefix(prefix \o <<"/">>, files[h].path)

\* the file of the archive with the given path
fileAt(files, path) == CHOOSE k \in 1..Len(files) : files[k].path = path

\* the index.md files of the archive that make an entry in native mode
nativeUnits(files) ==
  {k \in 1..Len(files) :
     /\ Len(files[k].path) = 6
     /\ IsPrefix(PostsPrefix, files[k].path)
     /\ SubSeq(files[k].path, 4, 6) = <<"/", "index", MdExtension>>
     /\ files[k].chars > 0
     /\ normalizeFrontmatter(files[k].data).ok}

\* the markdown files of the archive that make an entry in markdown mode
markdownUnits(files) ==
  {k \in 1..Len(files) :
     /\ files[k].path[Len(files[k].path)] = MdExtension
     /\ files[k].path[1] # ReservedPrefix
     /\ files[k].chars > 0
     /\ normalizeFrontmatter(files[k].data).ok}

\* C21: the enumeration lists exactly the units whose metadata normalizes,
\* one entry for each, in the order of the archive: in native mode the
\* subdirectories of posts/ whose index.md exists and normalizes, in markdown
\* mode the paths that end in .md outside __MACOSX and normalize; a second
\* enumeration of the same archive gives the same list
C21_EnumerationListsNormalizedUnits ==
  (call.fn = "enumerate" /\ call.runs > 0) =>
    LET out == call.out
        files == call.files
    IN /\ call.runs = 2 => call.again = out
       /\ call.mode = "native" =>
            /\ Len(out) = Cardinality(nativeUnits(files))
            /\ \A k \in nativeUnits(files) :
                 \E e \in 1..Len(out) :
                   /\ out[e].prefix = SubSeq(files[k].path, 1, 3)
                   /\ out[e].dir = <<files[k].path[3]>>
                   /\ out[e].title = normalizeFrontmatter(files[k].data).title
            /\ \A e, f \in 1..Len(out) :
                 e < f => firstBelow(files, out[e].prefix)
                            < firstBelow(files, out[f].prefix)
       /\ call.mode = "markdown" =>
            /\ Len(out) = Cardinality(markdownUnits(files))
            /\ \A k \in markdownUnits(files) :
                 \E e \in 1..Len(out) :
                   /\ out[e].mdPath = files[k].path
                   /\ out[e].title = normalizeFrontmatter(files[k].data).title
            /\ \A e, f \in 1..Len(out) :
                 e < f => fileAt(files, out[e].mdPath)
                            < fileAt(files, out[f].mdPath)

\* a native archive with two files of directory a before the index.md of
\* directory b, which has no title: directory a is listed once
C21_Witness ==
  /\ call.fn = "enumerate" /\ call.runs = 2 /\ call.mode = "native"
  /\ Len(call.files) = 3
  /\ call.files[1].path = <<"posts", "/", "a", "/", "content", ".json">>
  /\ call.files[2].path = <<"posts", "/", "b", "/", "index", MdExtension>>
  /\ ~normalizeFrontmatter(call.files[2].data).ok
  /\ call.files[3].path = <<"posts", "/", "a", "/", "index", MdExtension>>
  /\ Len(call.out) = 1
  /\ call.out[1].dir = <<"a">>

\* ------------------------------------------------------------------------
\* uploadMarkdownImages on the image references of a markdown body
\* ------------------------------------------------------------------------
MaxRefs == 2

\* extractMarkdownImages: the type of the reference with the given src
imageTypeOf(src) ==
  IF src[1] = "data:" THEN "data-uri"
  ELSE IF src[1] \in {"http://", "https://"} THEN "remote"
  ELSE "relative"

\* images.filter((img) => img.type === "relative"): the positions, in the
\* markdown, of its relative references
relativeImages(markdown) ==
  SelectSeq([k \in 1..Len(markdown) |-> k],
            LAMBDA k : imageTypeOf(markdown[k]) = "relative")

WarnNotFound(original) == <<"image-not-in-zip:">> \o original

WarnUploadFailed(original) == <<"image-upload-failed:">> \o original

\* rewriteMap.get(src): Null when the map has no such key
mapGet(rewriteMap, src) ==
  IF \E k \in 1..Len(rewriteMap) : rewriteMap[k][1] = src
  THEN rewriteMap[CHOOSE k \in 1..Len(rewriteMap) :
                    /\ rewriteMap[k][1] = src
                    /\ \A h \in (k + 1)..Len(rewriteMap) :
                         rewriteMap[h][1] # src][2]
  ELSE Null

\* rewriteMarkdownImagePaths(markdown, rewriteMap): the src of every image
\* reference that is a key of the map is replaced
rewriteMarkdownImagePaths(markdown, rewriteMap) ==
  [k \in 1..Len(markdown) |->
     IF mapGet(rewriteMap, markdown[k]) # Null
     THEN mapGet(rewriteMap, markdown[k]) ELSE markdown[k]]

\* a loop that ends at the first reference that is not in the archive
stopAfterMissing(k, n) == n + 1

\* continue: the loop goes on with the next reference
afterMissing(k, n) == k + 1

\* the paths an archive can hold next to the markdown file
ImagePaths == {<<"a">>, <<"d", "/", "a">>, <<"d", "/", "c">>}

\* the srcs of the image references of a markdown body
ImageSrcs ==
  {<<"a">>, <<"b">>, <<".", "/", "c">>, <<".", ".", "/", "a">>,
   <<"https://", "a">>}

NoImageResult == [rewrittenMarkdown |-> <<>>, warnings |-> <<>>]

MarkdownImagesInit ==
  /\ AtRest
  /\ call \in {[fn |-> "uploadMarkdownImages", markdown |-> md, mdDir |-> dir,
                 zipFiles |-> zf, k |-> 1, rewriteMap |-> <<>>,
                 warnings |-> <<>>, blobs |-> {}, mediaRows |-> {},
                 threw |-> {}, done |-> FALSE, result |-> NoImageResult,
                 returned |-> FALSE, stepReport |-> EmptyReport] :
                 md \in UNION {[1..n -> ImageSrcs] : n \in 0..MaxRefs},
                 dir \in {<<>>, <<"d">>},
                 zf \in [ImagePaths -> {"absent", "empty", "data"}]}

\* the reference the loop is at, and its resolved path
curImage == call.markdown[relativeImages(call.markdown)[call.k]]

curResolved == resolveRelativePath(call.mdDir, curImage)

InLoop ==
  /\ call.fn = "uploadMarkdownImages" /\ ~call.done
  /\ call.k <= Len(relativeImages(call.markdown))

inZip(path) == path \in ImagePaths /\ call.zipFiles[path] # "absent"

\* one turn of the loop: a reference that is not in the archive gives a
\* warning, an empty file is passed over, any other file is put in the blob
\* store under a new key, gets a media row and an entry of the rewrite map
UploadReference ==
  /\ InLoop
  /\ LET n == Len(relativeImages(call.markdown))
     IN IF ~inZip(curResolved)
        THEN call' = [call EXCEPT !.warnings = Append(@, WarnNotFound(curImage)),
                                  !.k = afterMissing(call.k, n)]
        ELSE IF call.zipFiles[curResolved] = "empty"
        THEN call' = [call EXCEPT !.k = @ + 1]
        ELSE LET newKey == freshKeys(call.blobs, 1)[1]
             IN call' = [call EXCEPT
                  !.blobs = @ \cup {newKey},
                  !.mediaRows = @ \cup {newKey},
                  !.rewriteMap =
                    Append(@, <<curImage,
                                <<ServingPrefix>> \o newKey \o <<QualitySuffix>>>>),
                  !.k = @ + 1]
  /\ UNCHANGED machine

\* R2.put or insertMedia throws: the catch in the loop gives a warning
UploadReferenceThrows ==
  /\ InLoop
  /\ inZip(curResolved) /\ call.zipFiles[curResolved] = "data"
  /\ call.threw = {}
  /\ call' = [call EXCEPT !.warnings = Append(@, WarnUploadFailed(curImage)),
                          !.threw = {relativeImages(call.markdown)[call.k]},
                          !.k = @ + 1]
  /\ UNCHANGED machine

\* after the loop: the markdown is rewritten when the map is not empty, and
\* the call returns
ReturnImages ==
  /\ call.fn = "uploadMarkdownImages" /\ ~call.done
  /\ call.k > Len(relativeImages(call.markdown))
  /\ call' = [call EXCEPT
       !.done = TRUE,
       !.result =
         [rewrittenMarkdown |->
            IF call.rewriteMap # <<>>
            THEN rewriteMarkdownImagePaths(call.markdown, call.rewriteMap)
            ELSE call.markdown,
          warnings |-> call.warnings]]
  /\ UNCHANGED machine

\* importSinglePost takes the warnings of the call and returns, skipped or
\* not; the step body puts the result in its report
ReturnUnit ==
  /\ call.fn = "uploadMarkdownImages" /\ call.done /\ ~call.returned
  /\ \E skipped \in BOOLEAN :
       call' = [call EXCEPT
         !.returned = TRUE,
         !.stepReport = resultReport(<<"T">>, <<"t">>, skipped,
                                     call.result.warnings)]
  /\ UNCHANGED machine

MarkdownImagesNext ==
  UploadReference \/ UploadReferenceThrows \/ ReturnImages \/ ReturnUnit

MarkdownImagesSpec == MarkdownImagesInit /\ [][MarkdownImagesNext]_vars

\* the relative references of the markdown whose resolved path is not in
\* the archive
missingRefs ==
  {k \in 1..Len(call.markdown) :
     /\ imageTypeOf(call.markdown[k]) = "relative"
     /\ ~inZip(resolveRelativePath(call.mdDir, call.markdown[k]))}

\* the relative references whose file is in the archive with data and whose
\* upload did not throw
uploadableRefs ==
  {k \in 1..Len(call.markdown) :
     /\ imageTypeOf(call.markdown[k]) = "relative"
     /\ inZip(resolveRelativePath(call.mdDir, call.markdown[k]))
     /\ call.zipFiles[resolveRelativePath(call.mdDir, call.markdown[k])] = "data"
     /\ k \notin call.threw}

\* C22: when uploadMarkdownImages has returned, every relative reference
\* whose resolved path is not in the archive has its own warning and its src
\* is the one of the markdown; every other relative reference whose file has
\* data was put in the blob store with a media row and its src is the
\* serving path of a stored key; the report of the unit's step has the
\* warnings and no failed entry
C22_MissingImageWarnsAndStays ==
  (call.fn = "uploadMarkdownImages") =>
    /\ call.k > Len(relativeImages(call.markdown)) =>
         /\ \A k \in missingRefs :
              Cardinality({w \in 1..Len(call.warnings) :
                             call.warnings[w] = WarnNotFound(call.markdown[k])})
                = Cardinality({h \in missingRefs :
                                 call.markdown[h] = call.markdown[k]})
         /\ Cardinality({w \in 1..Len(call.warnings) :
                           call.warnings[w][1] = "image-not-in-zip:"})
              = Cardinality(missingRefs)
    /\ call.done =>
         /\ call.result.warnings = call.warnings
         /\ \A k \in missingRefs :
              call.result.rewrittenMarkdown[k] = call.markdown[k]
         /\ \A k \in uploadableRefs :
              \E key \in call.blobs \cap call.mediaRows :
                call.result.rewrittenMarkdown[k]
                  = <<ServingPrefix>> \o key \o <<QualitySuffix>>
         /\ Cardinality(call.blobs) >= Cardinality(uploadableRefs)
    /\ call.returned =>
         /\ call.stepReport.failed = <<>>
         /\ \A k \in missingRefs :
              \E w \in 1..Len(call.stepReport.warnings) :
                call.stepReport.warnings[w]
                  = <<"[", "T", "]">> \o WarnNotFound(call.markdown[k])
         /\ Cardinality({w \in 1..Len(call.stepReport.warnings) :
                           call.stepReport.warnings[w][4] = "image-not-in-zip:"})
              = Cardinality(missingRefs)

\* the first reference is not in the archive, the second one is: one
\* warning, the first src unchanged, the second rewritten
C22_Witness ==
  /\ call.fn = "uploadMarkdownImages" /\ call.returned
  /\ call.stepReport.succeeded # <<>>
  /\ call.mdDir = <<"d">>
  /\ call.markdown = <<<<"b">>, <<".", "/", "c">>>>
  /\ call.result.warnings = <<WarnNotFound(<<"b">>)>>
  /\ call.result.rewrittenMarkdown[1] = <<"b">>
  /\ call.result.rewrittenMarkdown[2] = <<ServingPrefix, "img", "1", QualitySuffix>>

\* ------------------------------------------------------------------------
\* A caller polling the progress of its task
\* ------------------------------------------------------------------------
PollInterval == 2000

\* refetchInterval: the delay until the next read, 0 for false
refetchInterval(data) ==
  IF data.status = "none" THEN PollInterval
  ELSE IF data.status = "processing" \/ data.status = "pending"
       THEN PollInterval
       ELSE 0

\* the hook of the task that runs alone; query.state.data is null before
\* the first read
PollInit ==
  /\ kv = [k \in ProgressKeys |-> NoProgress]
  /\ r2 = {}
  /\ zips = [t \in TaskIds |-> <<>>]
  /\ posts \in {<<>>, <<SeedPost, SeedDraft>>}
  /\ tags \in {<<>>, <<<<"x">>>>}
  /\ postTags = {}
  /\ media = {}
  /\ postMedia = {}
  /\ resp = [t \in TaskIds |-> "none"]
  /\ wf = [t \in TaskIds |-> NoWf]
  /\ cache = [t \in TaskIds |-> NoCache]
  /\ isp = [t \in TaskIds |-> IspIdle]
  /\ faults = 0
  /\ restarts = 0
  /\ call = [fn |-> "poll", data |-> NoProgress]

\* parseProgress(raw): null for an absent key or a record that fails
\* TaskProgressSchema, else the record
parseProgress(raw) ==
  IF raw.status \in {"pending", "processing", "completed", "failed"}
  THEN raw ELSE NoProgress

\* queryFn of useImportProgress / useExportProgress, run when the interval
\* has passed: enabled once the task id is known
Poll(t) ==
  /\ call.fn = "poll"
  /\ resp[t] = "ok"
  /\ refetchInterval(call.data) # 0
  /\ call' = [call EXCEPT !.data = parseProgress(kv[progressKeyOf(t)])]
  /\ UNCHANGED machine

PollNext ==
  \/ Next
  \/ \E t \in SoloTasks : Poll(t)

PollSpec == PollInit /\ [][PollNext]_vars

\* the caller reads whenever the interval has passed
PollFairness == \A t \in SoloTasks : WF_vars(Poll(t))

PollFairSpec == PollSpec /\ Fairness /\ PollFairness

\* C23: after reading pending or processing the caller reads again after the
\* fixed interval; after reading completed or failed it reads no more; and
\* once the task has a terminal record the caller eventually stops reading
C23_PollingStopsAtTerminal ==
  /\ [](call.fn = "poll" =>
          /\ call.data.status \in {"pending", "processing"} =>
               refetchInterval(call.data) = PollInterval
          /\ Terminal(call.data) => refetchInterval(call.data) = 0)
  /\ [][call.fn = "poll" /\ Terminal(call.data) => call' = call]_vars
  /\ [][call.fn = "poll" /\ call.data.status \in {"pending", "processing"}
          => \A t \in SoloTasks : resp[t] = "ok" => ENABLED Poll(t)]_vars
  /\ \A t \in SoloTasks :
       (call.fn = "poll" /\ resp[t] = "ok" /\ Terminal(kv[progressKeyOf(t)]))
         ~> (Terminal(call.data) /\ refetchInterval(call.data) = 0)

\* ------------------------------------------------------------------------
\* The report of a finished import
\* ------------------------------------------------------------------------
\* the number of skipped-slug warnings among the warnings
skippedIn(warnings) ==
  Cardinality({k \in 1..Len(warnings) :
                 warnings[k][Len(warnings[k])] = "slug-exists-skipped"})

\* C24: the report of the completed record of an import is the concatenation
\* of the persisted results of its unit steps in the order of the
\* enumeration, each once, also in a run that was restarted and replayed;
\* each result holds one succeeded entry, one failed entry or one
\* skipped-slug warning, so succeeded + failed + skipped = total
C24_ReportIsConcatenationOfDeltas ==
  \A t \in SoloTasks :
    LET p == kv[importProgress(t)]
        deltas == cache[t].deltas
    IN (p.status = "completed" /\ p.report.has) =>
         /\ p.total = Len(cache[t].entries)
         /\ Len(deltas) = p.total
         /\ [succeeded |-> p.report.succeeded, failed |-> p.report.failed,
             warnings |-> p.report.warnings]
              = reportOfUnits(deltas, p.total)
         /\ \A k \in 1..Len(deltas) :
              Len(deltas[k].succeeded) + Len(deltas[k].failed)
                + skippedIn(deltas[k].warnings) = 1
         /\ Len(p.report.succeeded) + Len(p.report.failed)
              + skippedIn(p.report.warnings) = p.total

\* a restarted run has completed: one entry imported, one failed or skipped
C24_Witness ==
  \E t \in SoloTasks :
    /\ kv[importProgress(t)].status = "completed"
    /\ restarts > 0 /\ wf[t].pc = "done"
    /\ kv[importProgress(t)].total = 2
    /\ Len(kv[importProgress(t)].report.succeeded) = 1
    /\ Len(kv[importProgress(t)].report.failed)
         + skippedIn(kv[importProgress(t)].report.warnings) = 1

\* ------------------------------------------------------------------------
\* Two imports of entries with the same slug or the same new tag
\* ------------------------------------------------------------------------
\* the slug that the collision check of task t looks up for its entry
checkedSlug(t) == checkSlugOf(candidateSlugOf(normalizedOf[curUnit(t)]))

\* the rows that another task inserted for the slug that task t checks
rowsOfOthersFor(t) ==
  {p \in 1..Len(posts) :
     /\ posts[p].src.task \in TaskIds \ {t}
     /\ checkSlugOf(candidateSlugOf(
          normalizedOf[zips[posts[p].src.task][posts[p].src.unit]]))
          = checkedSlug(t)}

\* C25: a slug check that runs after another task inserted a post for the
\* same slug returns skipped and inserts nothing; the check and the insert
\* are separate steps, so two tasks can both pass the check and both insert
C25_LateSlugCheckSkips ==
  [][\A t \in TaskIds :
       (/\ wf[t].pc = "isp_check"
        /\ wf'[t] # wf[t]
        /\ rowsOfOthersFor(t) # {})
       => /\ wf'[t].pc = "unitRet"
          /\ wf'[t].delta.succeeded = <<>>
          /\ wf'[t].delta.failed = <<>>
          /\ skippedIn(wf'[t].delta.warnings) = 1
          /\ posts' = posts]_vars

\* both tasks passed the check before either inserted: the second insert of
\* a post for the slug is under way while the row of the first is stored
C25_Witness ==
  \E p \in 1..Len(posts) :
    /\ posts[p].src.task = "t1"
    /\ wf["t2"].pc = "isp_insert"
    /\ p \in rowsOfOthersFor("t2")
    /\ isp["t2"].snap.posts = <<SeedPost, SeedDraft>>

\* the tag name that task t is looking up or inserting
tagNameAt(t) == isp[t].uniqueTags[isp[t].k]

\* C26: a task calls insertTag exactly when its own lookup found no tag of
\* the name, and the call stores the name whatever was stored since the
\* lookup; two tasks whose lookups both found nothing both call insertTag
C26_TagLookupThenInsert ==
  [][\A t \in TaskIds :
       /\ (wf[t].pc = "isp_tagfind" /\ wf'[t].pc = "isp_tagins")
            => findTagByName(tagNameAt(t)) = 0
       /\ (wf[t].pc = "isp_tagfind" /\ wf'[t] # wf[t]
           /\ findTagByName(tagNameAt(t)) = 0)
            => wf'[t].pc = "isp_tagins" /\ tags' = tags
       /\ (wf[t].pc = "isp_tagins" /\ wf'[t] # wf[t])
            => tags' = Append(tags, tagNameAt(t))]_vars

\* both lookups found no tag of the name: one task has inserted it, the
\* other is about to call insertTag for the same name
C26_Witness ==
  /\ wf["t1"].pc = "isp_tagins" /\ wf["t2"].pc \in {"isp_insert", "isp_link"}
  /\ tagNameAt("t1") \in SeqToSet(tags)
  /\ isp["t2"].tagIds # <<>>
  /\ tags[isp["t2"].tagIds[1]] = tagNameAt("t1")
  /\ Len(tags) = 1

\* ------------------------------------------------------------------------
\* The import mode, from startImport to the steps of the run
\* ------------------------------------------------------------------------
\* what the archive holds at manifest.json: nothing, text that is not JSON,
\* JSON without one of the fields of ExportManifestSchema, or a manifest
ManifestFiles == {"absent", "malformed", "incomplete", "valid"}

\* readValidatedJsonFile(zipFiles, "manifest.json", ExportManifestSchema):
\* the parsed manifest, or null
readValidatedJsonFile(file) ==
  IF file = "absent" THEN Null
  ELSE IF file = "malformed" THEN Null
  ELSE IF file = "incomplete" THEN Null
  ELSE <<"manifest">>

\* a detection that looks at the presence of the file only
detectModeByPresence(file) == IF file # "absent" THEN "native" ELSE "markdown"

\* mode = manifest ? "native" : "markdown"
detectMode(file) ==
  IF readValidatedJsonFile(file) # Null THEN "native" ELSE "markdown"

\* an archive is about to be handed to startImport; one exception may occur
ModeInit ==
  /\ kv = [k \in ProgressKeys |-> NoProgress]
  /\ r2 = {}
  /\ zips = [t \in TaskIds |-> <<>>]
  /\ posts = <<>>
  /\ tags = <<>>
  /\ postTags = {}
  /\ media = {}
  /\ postMedia = {}
  /\ resp = [t \in TaskIds |-> "none"]
  /\ wf = [t \in TaskIds |-> NoWf]
  /\ cache = [t \in TaskIds |-> NoCache]
  /\ isp = [t \in TaskIds |-> IspIdle]
  /\ faults = MaxFaults - 1
  /\ restarts = 0
  /\ call \in {[fn |-> "startImport", manifest |-> m, mode |-> "none"] :
                 m \in ManifestFiles}

\* startImport stores the archive, writes the pending record, creates the
\* workflow with { taskId, r2Key, mode } and returns ok({ taskId, mode })
StartImportArchive(t) ==
  /\ call.fn = "startImport" /\ call.mode = "none"
  /\ resp[t] = "none"
  /\ LET mode == detectMode(call.manifest)
     IN /\ \E units \in SeqsUpTo(UnitPool, MaxUnits) :
             zips' = [zips EXCEPT ![t] = units]
        /\ r2' = r2 \cup {importZip(t)}
        /\ wf' = [wf EXCEPT ![t] =
                    [NoWf EXCEPT !.kind = "import", !.pc = "enum",
                                 !.mode = mode]]
        /\ call' = [call EXCEPT !.mode = mode]
  /\ updateProgress(importProgress(t), PendingProgress(<<"preparing-import">>))
  /\ resp' = [resp EXCEPT ![t] = "ok"]
  /\ UNCHANGED <<stores, cache, isp, faults, restarts>>

ModeNext ==
  \E t \in SoloTasks :
    \/ StartImportArchive(t)
    \/ /\ \/ ImportStep(t)
          \/ ImportFault(t)
          \/ Return(t)
          \/ Catch(t)
          \/ ProgressWriteThrows(t)
          \/ CatchThrows(t)
          \/ Restart(t)
       /\ UNCHANGED call

ModeSpec == ModeInit /\ [][ModeNext]_vars

\* C27 as stated: the mode of the run is the mode startImport returned, and
\* it is native exactly when the archive holds a file manifest.json
C27_ModeByManifestPresence ==
  \A t \in SoloTasks :
    (call.fn = "startImport" /\ wf[t].kind = "import") =>
      /\ wf[t].mode = call.mode
      /\ (call.mode = "native") = (call.manifest # "absent")

\* C27, amended: the mode of the run, in the enumerate step and in every
\* unit step, replayed or not, is the mode startImport returned, and it is
\* native exactly when manifest.json is present, is JSON and passes
\* ExportManifestSchema
C27_ModeByValidManifest ==
  \A t \in SoloTasks :
    (call.fn = "startImport" /\ wf[t].kind = "import") =>
      /\ wf[t].mode = call.mode
      /\ (call.mode = "native") = (call.manifest = "valid")
      /\ (call.mode = "markdown") = (call.manifest # "valid")

\* a unit step of a replayed run works in markdown mode on an archive whose
\* manifest.json lacks a field
C27_Witness ==
  \E t \in SoloTasks :
    /\ call.fn = "startImport" /\ call.manifest = "incomplete"
    /\ call.mode = "markdown"
    /\ restarts = 1
    /\ wf[t].pc = "isp_parse" /\ wf[t].mode = "markdown"

\* ------------------------------------------------------------------------
\* The post rows of an import and its report
\* ------------------------------------------------------------------------
\* the post rows that task t inserted
rowsOfTask(t) == {p \in 1..Len(posts) : posts[p].src.task = t}

\* the entries of task t whose persisted result lists a succeeded post
succeededUnits(t) ==
  {k \in 1..Len(cache[t].deltas) : cache[t].deltas[k].succeeded # <<>>}

\* C28: when an import run alone has completed, the post rows it inserted are
\* exactly the entries of report.succeeded: every row of the task belongs to
\* an entry whose result lists it with the stored slug, and an entry that
\* failed or was skipped has no row
C28_RowsAreSucceededUnits ==
  \A t \in SoloTasks :
    LET p == kv[importProgress(t)]
    IN (wf[t].kind = "import" /\ wf[t].pc = "done"
        /\ p.status = "completed" /\ p.report.has) =>
         /\ Cardinality(rowsOfTask(t)) = Len(p.report.succeeded)
         /\ \A r \in rowsOfTask(t) :
              /\ posts[r].src.unit \in succeededUnits(t)
              /\ cache[t].deltas[posts[r].src.unit].succeeded[1].slug
                   = posts[r].slug
         /\ \A k \in succeededUnits(t) :
              \E r \in rowsOfTask(t) : posts[r].src.unit = k

\* ------------------------------------------------------------------------
\* The deletion of the source archive of an import
\* ------------------------------------------------------------------------
\* the history of the archive: own is set when the body of the finalize
\* step has called R2.delete, lost when the archive disappeared otherwise
DeletionInit ==
  /\ kv = [k \in ProgressKeys |-> NoProgress]
  /\ r2 = {}
  /\ zips = [t \in TaskIds |-> <<>>]
  /\ posts \in {<<>>, <<SeedPost, SeedDraft>>}
  /\ tags = <<>>
  /\ postTags = {}
  /\ media = {}
  /\ postMedia = {}
  /\ resp = [t \in TaskIds |-> "none"]
  /\ wf = [t \in TaskIds |-> NoWf]
  /\ cache = [t \in TaskIds |-> NoCache]
  /\ isp = [t \in TaskIds |-> IspIdle]
  /\ faults = 0
  /\ restarts = 0
  /\ call = [fn |-> "delete", own |-> FALSE, lost |-> FALSE]

\* the body of the finalize step runs: await this.env.R2.delete(r2Key)
FinalizeBody(t) ==
  /\ wf[t].pc = "fin" /\ ~cache[t].fin
  /\ Finalize(t) \/ FinalizeThrows(t)
  /\ call' = [call EXCEPT !.own = TRUE]

DeletionNext ==
  \E t \in SoloTasks :
    \/ FinalizeBody(t)
    \/ ArchiveLost(t) /\ call' = [call EXCEPT !.lost = TRUE]
    \/ /\ \/ startImport(t)
          \/ ImportStep(t) /\ (wf[t].pc = "fin" => cache[t].fin)
          \/ EnumerateThrows(t)
          \/ UnitThrows(t)
          \/ FinalizeDeleteThrows(t)
          \/ Return(t)
          \/ Catch(t)
          \/ ProgressWriteThrows(t)
          \/ CatchThrows(t)
          \/ Restart(t)
       /\ UNCHANGED call

DeletionSpec == DeletionInit /\ [][DeletionNext]_vars

\* the persisted and the current unit results that failed for this reason
failedFor(t, reason) ==
  {k \in 1..Len(cache[t].deltas) :
     \E f \in 1..Len(cache[t].deltas[k].failed) :
       cache[t].deltas[k].failed[f].reason = reason}

\* C29: the archive of a started import is absent only after the body of
\* its finalize step deleted it or after it was lost otherwise; once the
\* finalize body has deleted it, the result of the enumerate step and of the
\* step of every entry is persisted and no enumerate body and no unit body
\* runs, also in a restarted run; and without an outside loss no entry fails
\* with archive-not-found and the run does not fail with it
C29_ArchiveDeletedOnlyInFinalize ==
  \A t \in SoloTasks :
    (call.fn = "delete" /\ wf[t].kind = "import") =>
      /\ importZip(t) \notin r2 => (call.own \/ call.lost)
      /\ call.own =>
           /\ cache[t].enum
           /\ Len(cache[t].deltas) = Len(cache[t].entries)
           /\ wf[t].pc \notin IspPcs
           /\ ~(wf[t].pc = "enum" /\ ~cache[t].enum)
      /\ ~call.lost =>
           /\ failedFor(t, ErrZipNotFound) = {}
           /\ wf[t].error # ErrZipNotFound

\* a run restarted after its finalize body deleted the archive replays the
\* step of its second entry from the persisted result
C29_Witness ==
  \E t \in SoloTasks :
    /\ call.fn = "delete" /\ call.own /\ ~call.lost
    /\ importZip(t) \notin r2
    /\ restarts > 0
    /\ wf[t].pc = "unit" /\ wf[t].i = 2
    /\ Len(cache[t].deltas) = 2

\* ------------------------------------------------------------------------
\* What a failed start leaves behind
\* ------------------------------------------------------------------------
\* C30: when startExport or startImport has returned an error, no workflow
\* instance exists for the task id, and neither a progress record nor an
\* uploaded archive exists for it
C30_FailedStartLeavesNothing ==
  \A t \in SoloTasks :
    resp[t] \in StartErrors =>
      /\ wf[t].kind = "none"
      /\ kv[importProgress(t)] = NoProgress
      /\ kv[exportProgress(t)] = NoProgress
      /\ importZip(t) \notin r2

====
